---- MODULE Spec2Model ----
(***************************************************************************)
(* Model of the reactor control program (reactor_control_gui_v1.py and the *)
(* device drivers it uses).                                                *)
(*                                                                         *)
(* Threads of the program:                                                 *)
(*   "gui"  - the Tk main loop, running one button handler at a time       *)
(*   "mon"  - monitor_temperature_readings (started by                     *)
(*            connect_temp_control)                                        *)
(*   "ramp" - run_temp_control_loop (started by start_temp_control)        *)
(*   "poll" - update_loop / update_mfc_data (started by connect_serial)    *)
(* A step of the model is one access to a shared attribute, one lock       *)
(* operation, or one half (request write / reply read) of a serial         *)
(* exchange; Python may switch threads between any two of them.            *)
(*                                                                         *)
(* Temperatures are whole degrees Celsius; flows are whole sccm.           *)
(***************************************************************************)
EXTENDS Integers, Sequences, FiniteSets, TLC

\* ---------------------------------------------------------------------
\* Program constants
\* ---------------------------------------------------------------------
\* check_safety_conditions: the over-temperature threshold
Threshold == 750
\* trigger_safety_shutdown / emergency_stop / run_temp_control_loop:
\* the safe temperature setpoint
SafeSetpoint == 20
\* get_temp_readings_threadsafe: seconds a cached reading stays usable
CacheWindow == 10
\* set_flow_rate: full scale of the integer setpoint parameter
FullScale == 32000
\* SerialMFCController.set_flow: 0.01 sccm in units of 0.005 sccm
SetpointTolerance == 2
\* check_flow_conditions: seconds an alert must last before it is notified
AlertDelay == 60
\* temp_ramp.py: MAX_ERROR_DURING_RAMP, 0.1 degree in units of 0.05 degree
MaxErrorDuringRamp == 2
\* ticks in a minute: ramp times are exact in ticks for the rates of
\* RateValues
TicksPerMinute == 170

\* Node addresses of the Bronkhorst controllers (connect_serial)
N2 == 1
CO2 == 3
H2 == 6
Nodes == {N2, CO2, H2}
\* insertion order of self.mfc_controllers, the order the poll iterates in
NodeOrder == <<N2, CO2, H2>>

\* ---------------------------------------------------------------------
\* Inputs of the environment, drawn from small sets
\* ---------------------------------------------------------------------
\* (internal, external) temperatures a poll of the controllers can return
TempPairs == {<<749, 749>>, <<750, 749>>}
\* temperatures the scheduler can select from the uploaded ramp
RampTemps == {300, 750}
\* capacity (sccm) a Bronkhorst controller reports at connection
CapacityValues == {200}
\* flow rates the operator can type into a set-flow box
FlowInputs == {0, 100}

\* what the two reads of one node in a poll can give, in sccm: the
\* measured flow, whether read_parameter('measure') answered at all, and
\* the setpoint
FlowReads == { [answered |-> TRUE,  measure |-> 0,   setpoint |-> 0],
               [answered |-> TRUE,  measure |-> 0,   setpoint |-> 200],
               [answered |-> FALSE, measure |-> 0,   setpoint |-> 200],
               [answered |-> TRUE,  measure |-> 180, setpoint |-> 200] }
\* seconds between two polls
PollGaps == {45}
\* the clock stops here
MaxNow == 225

\* times since the start of the ramp at which the scheduler is evaluated:
\* every tick up to MaxElapsed, and the 50, 300 and 400 minutes marks
MaxElapsed == 30
ElapsedValues == (0 .. MaxElapsed) \cup {8500, 51000, 68000}
\* hand-written control-point sequences: at most MaxPoints points, at
\* times up to MaxPointTime, with temperatures from PointTemps
MaxPoints == 3
MaxPointTime == 3
PointTemps == {500, 600, 700}

\* ramp specifications: temperatures in units of 0.05 degree, hold times
\* in ticks, ramp rates in units per minute (85 is 4.25 degrees/min, 170 is
\* 8.5 degrees/min)
RampTempValues == {500, 503, 504}
HoldValues == {0, 5}
RateValues == {0, 85, 170}
MaxTemps == 3
\* temperatures 25, 450, 25 degrees; hold times 0, 240 minutes; ramp rates
\* 8.5, 0 degrees/min
ExampleRamp == [temps      |-> <<500, 9000, 500>>,
                hold_times |-> <<0, 40800>>,
                ramp_rates |-> <<170, 0>>]
RampSpecs ==
    {ExampleRamp} \cup
    UNION { [temps      : [1 .. n -> RampTempValues],
             hold_times : [1 .. n - 1 -> HoldValues],
             ramp_rates : [1 .. n - 1 -> RateValues]] : n \in 2 .. MaxTemps }

\* ASCII: the start of a ProPar message, and what strip() removes
Colon == 58
Whitespace == {9, 10, 11, 12, 13, 32}

\* set_flow_rate: capacities a controller can hold and flows asked for
ProparCapacities == {-50, 0, 200, 500}
ProparFlows == {-10, 0, 100, 119, 200, 300, 500}
\* every flow and capacity of the model whose setpoint is computed
FlowDomain == ProparFlows \cup FlowInputs \cup {50}
CapacityDomain == CapacityValues \cup {c \in ProparCapacities : c > 0}

\* cache model: what one read of the controller can return, the clock
\* step and its bound, and the number of polls
ReadValues == {749, 750}
ClockStep == 5
MaxClock == 15
MaxPolls == 2

\* ramp files: the keys of the JSON object and, for each array, the values
\* of which a file holds a prefix (temperatures in units of 0.05 degree,
\* hold times in hours, rates in units per minute)
RampKeys == {"temperatures", "hold_times", "ramp_rates"}
FileKeys == RampKeys \cup {"comment"}
FileTemps == <<500, 503, 500>>
FileHolds == <<0, 1>>
FileRates == <<85, 85>>
MaxCommands == 2

\* codec round trip: integers around the byte boundaries and the full
\* scale, and strings over 'N', '2', 'A' and the blank up to MaxStrLen long
Int16Samples == {0, 1, 255, 256, 257, 4660, 32000, 32768, 65535}
StrChars == {78, 50, 65, 32}
MaxStrLen == 3
CodecStrings == UNION { [1 .. n -> StrChars] : n \in 0 .. MaxStrLen }

\* set_flow: flow rates asked for (units of 0.005 sccm), retry limits, and
\* the response lines the Alicat controller can answer with: its echoed
\* setpoint is off the target by 0, 0.005, 0.01 or 0.5 sccm
SetFlowTargets == {0, 200}
MaxRetries == 3
RetryLimits == -1 .. MaxRetries
EchoOffsets == {0, 1, 2, 100}
MassFlows == {0, 7}

\* parse_raw_response: the tokens a line is made of ("5", "N2", "MOV" and
\* "5MOV"), and the most tokens on one line
MovText == <<77, 79, 86>>
LineTokens == {<<53>>, <<78, 50>>, MovText, <<53>> \o MovText}
MaxTokens == 8
StatusColumns == 7

\* the log file: its bytes ("a", "b" and "\n"), the chunks a writer
\* appends at once, and its greatest length
Newline == 10
LogChars == {97, 98, Newline}
MaxChunk == 2
MaxFile == 5

\* ramp-control threads: how many the operator starts, and how far the
\* clock runs
MaxThreads == 3
MaxWorkerClock == 2

Threads == {"gui", "mon", "ramp", "poll"}
Workers == {"mon", "ramp"}
NoReading == <<>>
\* current_setpoint is None
NoSetpoint == -1
\* "node_id not in self.flow_alert_start_times"
NoTime == -1

VARIABLES
    maintenance_mode,     \* self.maintenance_mode
    safety_triggered,     \* self.safety_triggered
    temp_control_running, \* self.temp_control_running
    temp_controllers,     \* self.temp_controllers is non-empty
    mfc_controllers,      \* self.mfc_controllers is non-empty
    capacity,             \* MFCController.capacity of each node
    temp_ramp_config,     \* self.temp_ramp_config is loaded
    start_temp_btn,       \* start_temp_btn is enabled
    stop_temp_btn,        \* stop_temp_btn is enabled
    temp_log_file,        \* self.temp_log_file is an open file
    temp_controller_lock, \* owner of self.temp_controller_lock, or "free"
    last_temp_readings,   \* the cached triple, or NoReading
    dev_setpoint,         \* setpoint register of temperature controller '1'
    temp_inflight,        \* threads between request write and reply read
                          \* on the temperature controllers' serial link
    mfc_setpoint,         \* setpoint register of each Bronkhorst node
    mfc_inflight,         \* threads between request write and reply read
                          \* on the Bronkhorst serial link
    pc,                   \* position of each thread
    rd,                   \* a worker's local (internal, external, setpoint),
                          \* from its poll until check_safety_conditions
    desired,              \* the ramp worker's local desired_set_point
                          \* (0 outside the lines that use it)
    current_setpoint,     \* the ramp worker's local current_setpoint of
                          \* line 1402 (NoSetpoint outside lines 1402-1404)
    fidx,                 \* position in the flow writes of a shutdown
    pk,                   \* position of the poll in its cycle of exchanges
    shutdown_runs,        \* trigger_safety_shutdown entries since last reset
    safe_written,         \* a shutdown wrote SafeSetpoint since last reset
    now,                  \* the wall clock, in seconds
    flow_alert_start_times, \* self.flow_alert_start_times: per node the
                          \* start of the alert, or NoTime when absent
    flow_alerts,          \* self.flow_alerts: per node, notified
    low_since,            \* per node, the time of the first poll of the
                          \* current unbroken run of low-flow polls
    episode_sent,         \* per node, notifications sent in that run
    notified_now,         \* per node, the latest poll sent a notification
    last_ok,              \* per node, the latest poll saw flow >= 0.9 x
                          \* setpoint
    read_failed,          \* per node, read_parameter('measure') returned
                          \* None in the latest poll
    temp_ramp,            \* the TempRamp given to run_temp_control_loop
    ramp_control_times,   \* ramp_control_times of run_temp_control_loop
    ramp_control_temps,   \* ramp_control_temps of run_temp_control_loop
    elapsed,              \* time since ramp_start_time at the latest
                          \* evaluation of the scheduler, or NoTime
    sf_pc,                \* position of a call of SerialMFCController.set_flow
    sf_flow_rate,         \* its flow_rate argument, in units of 0.005 sccm
    sf_max_retries,       \* its max_retries argument
    sf_attempt,           \* its loop variable attempt
    sf_response,          \* the response line read by the latest attempt
    sf_result,            \* the MFCStatus it returned, or NoStatus
    sf_writes,            \* write commands it has sent
    sf_failed,            \* attempts of it that have failed
    sf_sleeps,            \* time.sleep(0.1) delays it has taken
    sf_error,             \* cause named by the RuntimeError it raised
    sf_message,           \* what set_mfc_flow reported for the call
    sf_causes,            \* the errors of its failed attempts, in order
    pp_pc,                \* position of a call on one MFCController
    pp_op,                \* the method called: set_flow_rate or
                          \* read_parameter
    pp_capacity,          \* self.capacity of the controller
    pp_flow,              \* flow_rate_sccm of set_flow_rate
    pp_value,             \* int_value of set_flow_rate, NoSetpoint when
                          \* none was computed
    pp_type,              \* p['type'] of the parameter of the call
    pp_message,           \* the message it wrote, << >> if none
    pp_writes,            \* ser.write calls it has made
    pp_reply,             \* how the device composed its response
    pp_response,          \* the response bytes that readline returned
    pp_result,            \* what the call returned
    cd_pc,                \* position of a codec round trip
    cd_type,              \* its parameter type
    cd_value,             \* the value encoded
    cd_frame,             \* the data response carrying the encoded value
    cd_decoded,           \* what parse_propar_response made of cd_frame
    rc_config,            \* self.temp_ramp_config as loaded from a file
    rc_report,            \* the latest message box of the ramp dialogs
    rc_worker,            \* the ramp-control worker has been started
    rc_started,           \* the configuration it was started with
    rc_commands,          \* exchanges it has made with the controller
    ck_now,               \* the wall clock of the cache model, in seconds
    ck_lock,              \* owner of self.temp_controller_lock, or "free"
    ck_cache,             \* self.last_temp_readings, each value with the
                          \* number of the poll that read it
    ck_pc,                \* position of each worker in its poll
    ck_poll,              \* number of each worker's current poll
    ck_vals,              \* the values its poll has read so far
    ck_ret,               \* the triple get_temp_readings_threadsafe
                          \* returned to it
    ck_polls,             \* polls started so far
    ck_last_ok,           \* number of the latest poll whose three reads
                          \* all succeeded
    ck_failed,            \* the worker's current poll raised
    ck_age,               \* age of the cache when it raised, or NoTime
    ck_latest,            \* ck_last_ok when the worker's poll returned
    pr_pc,                \* position of a call of parse_raw_response
    pr_tokens,            \* the tokens the device put on the line
    pr_response,          \* the response bytes handed to the call
    pr_result,            \* what the call returned or raised
    ll_pc,                \* position of a call of LivingLog.new_entries
    ll_file,              \* the bytes of the log file
    ll_cursor,            \* LivingLog.cursor
    ll_size,              \* f_size of the call, NoTime outside it
    ll_returned,          \* the entries returned so far, in call order
    wk_running,           \* self.temp_control_running
    wk_start_btn,         \* start_temp_btn is enabled (stop_temp_btn is
                          \* enabled when it is not)
    wk_pc,                \* position of each run_temp_control_loop thread
                          \* created so far
    wk_clock,             \* time.time()
    wk_start_time,        \* ramp_start_time of each thread
    wk_writer             \* the thread that wrote the latest setpoint,
                          \* 0 if none has

cfgVars   == <<temp_controllers, mfc_controllers, capacity, temp_ramp_config>>
btnVars   == <<start_temp_btn, stop_temp_btn>>
safeVars  == <<maintenance_mode, safety_triggered>>
tempVars  == <<temp_controller_lock, last_temp_readings, dev_setpoint,
               temp_inflight>>
mfcVars   == <<mfc_setpoint, mfc_inflight>>
localVars == <<rd, desired, current_setpoint, fidx, pk>>
ghostVars == <<shutdown_runs, safe_written>>
runVars   == <<temp_control_running, temp_log_file>>
flowVars  == <<now, flow_alert_start_times, flow_alerts, low_since,
               episode_sent, notified_now, last_ok, read_failed>>
\* state of the components the supervisor and the serial links do not touch
rampVars  == <<temp_ramp, ramp_control_times, ramp_control_temps, elapsed>>
alicatVars == <<sf_pc, sf_flow_rate, sf_max_retries, sf_attempt,
                sf_response, sf_result, sf_writes, sf_failed, sf_sleeps,
                sf_error, sf_message, sf_causes>>
proparVars == <<pp_pc, pp_op, pp_capacity, pp_flow, pp_value, pp_type,
                pp_message, pp_writes,
                pp_reply, pp_response, pp_result>>
codecVars == <<cd_pc, cd_type, cd_value, cd_frame, cd_decoded>>
frameVars == <<proparVars, codecVars>>
configVars == <<rc_config, rc_report, rc_worker, rc_started, rc_commands>>
cacheVars == <<ck_now, ck_lock, ck_cache, ck_pc, ck_poll, ck_vals, ck_ret,
               ck_polls, ck_last_ok, ck_failed, ck_age, ck_latest>>
parseVars == <<pr_pc, pr_tokens, pr_response, pr_result>>
livingVars == <<ll_pc, ll_file, ll_cursor, ll_size, ll_returned>>
workerVars == <<wk_running, wk_start_btn, wk_pc, wk_clock, wk_start_time,
                wk_writer>>
auxVars   == <<parseVars, livingVars, workerVars>>
sideVars  == <<flowVars, rampVars, alicatVars, frameVars, configVars,
               cacheVars, auxVars>>

vars == <<cfgVars, btnVars, safeVars, tempVars, mfcVars, localVars,
          ghostVars, runVars, pc, sideVars>>

Goto(t, l) == pc' = [pc EXCEPT ![t] = l]

InitControl ==
    /\ maintenance_mode = FALSE
    /\ safety_triggered = FALSE
    /\ temp_control_running = FALSE
    /\ temp_controllers = FALSE
    /\ mfc_controllers = FALSE
    /\ capacity = [n \in Nodes |-> 0]
    /\ temp_ramp_config = FALSE
    /\ start_temp_btn = FALSE
    /\ stop_temp_btn = FALSE
    /\ temp_log_file = FALSE
    /\ temp_controller_lock = "free"
    /\ last_temp_readings = NoReading
    /\ dev_setpoint = SafeSetpoint
    /\ temp_inflight = {}
    /\ mfc_setpoint = [n \in Nodes |-> 0]
    /\ mfc_inflight = {}
    /\ pc = [t \in Threads |-> "idle"]
    /\ rd = [t \in Workers |-> NoReading]
    /\ desired = 0
    /\ current_setpoint = NoSetpoint
    /\ fidx = [t \in Threads |-> 0]
    /\ pk = 0
    /\ shutdown_runs = 0
    /\ safe_written = FALSE
    /\ now = 0
    /\ flow_alert_start_times = [n \in Nodes |-> NoTime]
    /\ flow_alerts = [n \in Nodes |-> FALSE]
    /\ low_since = [n \in Nodes |-> NoTime]
    /\ episode_sent = [n \in Nodes |-> 0]
    /\ notified_now = [n \in Nodes |-> FALSE]
    /\ last_ok = [n \in Nodes |-> FALSE]
    /\ read_failed = [n \in Nodes |-> FALSE]

\* no ramp worker has been started: it has no ramp and no control points
NoRamp == [temps |-> <<>>, hold_times |-> <<>>, ramp_rates |-> <<>>]

InitRamp ==
    /\ temp_ramp = NoRamp
    /\ ramp_control_times = <<>>
    /\ ramp_control_temps = <<>>
    /\ elapsed = NoTime

\* a response line: empty, malformed (not 7 columns), or a status line
NoStatus == [kind |-> "none", setpoint |-> 0, mass_flow |-> 0]

InitAlicat ==
    /\ sf_pc = "idle"
    /\ sf_flow_rate = 0
    /\ sf_max_retries = 0
    /\ sf_attempt = 0
    /\ sf_response = NoStatus
    /\ sf_result = NoStatus
    /\ sf_writes = 0
    /\ sf_failed = 0
    /\ sf_sleeps = 0
    /\ sf_error = "none"
    /\ sf_message = "none"
    /\ sf_causes = << >>

\* the composition of a response: text before the frame, whether the
\* frame starts with ':', the error of its length field, its data bytes
NoReply == [lead |-> << >>, colon |-> FALSE, delta |-> 0, data |-> << >>]

InitPropar ==
    /\ pp_pc = "idle"
    /\ pp_op = "none"
    /\ pp_capacity = 0
    /\ pp_flow = 0
    /\ pp_value = NoSetpoint
    /\ pp_type = "none"
    /\ pp_message = << >>
    /\ pp_writes = 0
    /\ pp_reply = NoReply
    /\ pp_response = << >>
    /\ pp_result = "none"

InitCodec ==
    /\ cd_pc = "idle"
    /\ cd_type = "none"
    /\ cd_value = 0
    /\ cd_frame = << >>
    /\ cd_decoded = "none"

\* self.temp_ramp_config = None, line 103
NoFile == [keys |-> {}, temperatures |-> << >>, hold_times |-> << >>,
           ramp_rates |-> << >>]

InitConfig ==
    /\ rc_config = NoFile
    /\ rc_report = "none"
    /\ rc_worker = FALSE
    /\ rc_started = NoFile
    /\ rc_commands = 0

\* a value of the cache that is None, and (None, None, None)
NoVal == [v |-> -1, poll |-> 0]
NoTriple == << >>

InitCache ==
    /\ ck_now = 0
    /\ ck_lock = "free"
    /\ ck_cache = [internal_temp |-> NoVal, external_temp |-> NoVal,
                   setpoint |-> NoVal, last_update |-> NoTime]
    /\ ck_pc = [w \in Workers |-> "idle"]
    /\ ck_poll = [w \in Workers |-> 0]
    /\ ck_vals = [w \in Workers |-> << >>]
    /\ ck_ret = [w \in Workers |-> NoTriple]
    /\ ck_polls = 0
    /\ ck_last_ok = 0
    /\ ck_failed = [w \in Workers |-> FALSE]
    /\ ck_age = [w \in Workers |-> NoTime]
    /\ ck_latest = [w \in Workers |-> 0]

\* no line has been parsed
NoParse == [tag |-> "none", setpoint |-> 0, mass_flow |-> 0]

InitParse ==
    /\ pr_pc = "idle"
    /\ pr_tokens = << >>
    /\ pr_response = << >>
    /\ pr_result = NoParse

\* an empty log file and LivingLog(f_name), cursor = 0
InitLiving ==
    /\ ll_pc = "idle"
    /\ ll_file = << >>
    /\ ll_cursor = 0
    /\ ll_size = NoTime
    /\ ll_returned = << >>

\* the ramp is uploaded and the controller connected; no thread yet
InitWorkers ==
    /\ wk_running = FALSE
    /\ wk_start_btn = TRUE
    /\ wk_pc = << >>
    /\ wk_clock = 0
    /\ wk_start_time = << >>
    /\ wk_writer = 0

InitAux == InitParse /\ InitLiving /\ InitWorkers

Init ==
    /\ InitControl /\ InitRamp /\ InitAlicat /\ InitPropar /\ InitCodec
    /\ InitConfig /\ InitCache /\ InitAux

\* ---------------------------------------------------------------------
\* Temperature controller access (get_temp_readings_threadsafe,
\* set_temp_setpoint_threadsafe)
\* ---------------------------------------------------------------------
Setpoints == {SafeSetpoint} \cup RampTemps
ReadingSpace == {<<p[1], p[2], s>> : p \in TempPairs, s \in Setpoints}
                    \cup {NoReading}

\* "with self.temp_controller_lock:" entered by thread t, up to the first
\* ser.write of the body: the holder's request is on the wire
AcquireLock(t, from, to) ==
    /\ pc[t] = from
    /\ temp_controller_lock = "free"
    /\ temp_controller_lock' = t
    /\ temp_inflight' = temp_inflight \cup {t}
    /\ Goto(t, to)

\* Body of get_temp_readings_threadsafe with the lock held, returning res:
\* either the three reads succeed and the cache is replaced, or one of them
\* raises and the cached triple is returned if it is less than 10 s old
\* (the clock is free here: either outcome), else (None, None, None).
GetTempReadings(t, res) ==
    /\ temp_controller_lock = t
    /\ \/ /\ res \in {<<p[1], p[2], dev_setpoint>> : p \in TempPairs}
          /\ last_temp_readings' = res
       \/ /\ res \in {last_temp_readings, NoReading}
          /\ UNCHANGED last_temp_readings
    /\ temp_controller_lock' = "free"
    /\ temp_inflight' = temp_inflight \ {t}
    /\ UNCHANGED dev_setpoint

\* Body of set_temp_setpoint_threadsafe(v) with the lock held.  The S(...)
\* command is always sent; the controller takes it unless the link fails.
SetTempSetpoint(t, v, safe) ==
    /\ temp_controller_lock = t
    /\ \E ok \in BOOLEAN : dev_setpoint' = IF ok THEN v ELSE dev_setpoint
    /\ safe_written' = (safe_written \/ safe)
    /\ temp_controller_lock' = "free"
    /\ temp_inflight' = temp_inflight \ {t}
    /\ UNCHANGED last_temp_readings

\* ---------------------------------------------------------------------
\* The reading cache (get_temp_readings_threadsafe in detail: the three
\* reads one by one, the cache, the clock)
\* ---------------------------------------------------------------------
\* Faulty variant of CacheStore: each value is stored as soon as it is read
CacheStoreEager(cache, vals, clock) ==
    IF Len(vals) = 1
    THEN [cache EXCEPT !.internal_temp = vals[1], !.last_update = clock]
    ELSE IF Len(vals) = 2
    THEN [cache EXCEPT !.external_temp = vals[2], !.last_update = clock]
    ELSE [cache EXCEPT !.setpoint = vals[3], !.last_update = clock]

\* lines 969-975: the cache is replaced once all three values are read
CacheStore(cache, vals, clock) ==
    IF Len(vals) = 3
    THEN [internal_temp |-> vals[1], external_temp |-> vals[2],
          setpoint |-> vals[3], last_update |-> clock]
    ELSE cache

\* Faulty variant of FreshEnough: a reading 10 s old still counts
FreshEnoughInclusive(age) == age <= CacheWindow

\* line 983: (datetime.now() - last_update).total_seconds() < 10
FreshEnough(age) == age < CacheWindow

\* lines 979-987: what the exception handler returns
CachedOrNone(cache, clock) ==
    IF cache.last_update # NoTime /\ FreshEnough(clock - cache.last_update)
    THEN <<cache.internal_temp, cache.external_temp, cache.setpoint>>
    ELSE NoTriple

\* "with self.temp_controller_lock:" entered for a new poll
CachePollAcquire(w) ==
    /\ ck_pc[w] = "idle"
    /\ ck_lock = "free"
    /\ ck_polls < MaxPolls
    /\ ck_lock' = w
    /\ ck_polls' = ck_polls + 1
    /\ ck_poll' = [ck_poll EXCEPT ![w] = ck_polls + 1]
    /\ ck_vals' = [ck_vals EXCEPT ![w] = << >>]
    /\ ck_ret' = [ck_ret EXCEPT ![w] = NoTriple]
    /\ ck_failed' = [ck_failed EXCEPT ![w] = FALSE]
    /\ ck_age' = [ck_age EXCEPT ![w] = NoTime]
    /\ ck_pc' = [ck_pc EXCEPT ![w] = "read"]
    /\ UNCHANGED <<ck_now, ck_cache, ck_last_ok, ck_latest>>

\* lines 964-977: get_temp(), get_temp() or get_set_temp() returns a value;
\* after the third the cache is replaced and the triple returned
CachePollRead(w) ==
    /\ ck_pc[w] = "read"
    /\ ck_lock = w
    /\ \E x \in ReadValues :
          LET vals == Append(ck_vals[w], [v |-> x, poll |-> ck_poll[w]])
          IN  /\ ck_vals' = [ck_vals EXCEPT ![w] = vals]
              /\ ck_cache' = CacheStore(ck_cache, vals, ck_now)
              /\ IF Len(vals) = 3
                 THEN /\ ck_ret' = [ck_ret EXCEPT ![w] = vals]
                      /\ ck_last_ok' = ck_poll[w]
                      /\ ck_latest' = [ck_latest EXCEPT ![w] = ck_poll[w]]
                      /\ ck_lock' = "free"
                      /\ ck_pc' = [ck_pc EXCEPT ![w] = "got"]
                 ELSE UNCHANGED <<ck_ret, ck_last_ok, ck_latest, ck_lock,
                                  ck_pc>>
    /\ UNCHANGED <<ck_now, ck_poll, ck_polls, ck_failed, ck_age>>

\* lines 979-987: one of the reads raises
CachePollFail(w) ==
    /\ ck_pc[w] = "read"
    /\ ck_lock = w
    /\ ck_ret' = [ck_ret EXCEPT ![w] = CachedOrNone(ck_cache, ck_now)]
    /\ ck_failed' = [ck_failed EXCEPT ![w] = TRUE]
    /\ ck_age' = [ck_age EXCEPT ![w] =
                     IF ck_cache.last_update = NoTime THEN NoTime
                     ELSE ck_now - ck_cache.last_update]
    /\ ck_latest' = [ck_latest EXCEPT ![w] = ck_last_ok]
    /\ ck_lock' = "free"
    /\ ck_pc' = [ck_pc EXCEPT ![w] = "got"]
    /\ UNCHANGED <<ck_now, ck_cache, ck_poll, ck_vals, ck_polls, ck_last_ok>>

\* monitor_temperature_readings lines 1113-1122 and run_temp_control_loop
\* lines 1411-1446: a complete triple goes to check_safety_conditions
CachePollUse(w) ==
    /\ ck_pc[w] = "got"
    /\ ck_pc' = [ck_pc EXCEPT ![w] =
                    IF ck_ret[w] # NoTriple THEN "check" ELSE "idle"]
    /\ UNCHANGED <<ck_now, ck_lock, ck_cache, ck_poll, ck_vals, ck_ret,
                   ck_polls, ck_last_ok, ck_failed, ck_age, ck_latest>>

\* run_temp_control_loop line 1402: only the setpoint of the triple is used
CachePollSetpointOnly ==
    /\ ck_pc["ramp"] = "got"
    /\ ck_pc' = [ck_pc EXCEPT !["ramp"] = "idle"]
    /\ UNCHANGED <<ck_now, ck_lock, ck_cache, ck_poll, ck_vals, ck_ret,
                   ck_polls, ck_last_ok, ck_failed, ck_age, ck_latest>>

\* check_safety_conditions(internal_temp, external_temp, setpoint) returns
CacheCheckDone(w) ==
    /\ ck_pc[w] = "check"
    /\ ck_pc' = [ck_pc EXCEPT ![w] = "idle"]
    /\ UNCHANGED <<ck_now, ck_lock, ck_cache, ck_poll, ck_vals, ck_ret,
                   ck_polls, ck_last_ok, ck_failed, ck_age, ck_latest>>

\* time passes
CacheTick ==
    /\ ck_now + ClockStep <= MaxClock
    /\ ck_now' = ck_now + ClockStep
    /\ UNCHANGED <<ck_lock, ck_cache, ck_pc, ck_poll, ck_vals, ck_ret,
                   ck_polls, ck_last_ok, ck_failed, ck_age, ck_latest>>

CacheNext ==
    /\ \/ \E w \in Workers :
             \/ CachePollAcquire(w) \/ CachePollRead(w) \/ CachePollFail(w)
             \/ CachePollUse(w) \/ CacheCheckDone(w)
       \/ CachePollSetpointOnly
       \/ CacheTick
    /\ UNCHANGED <<cfgVars, btnVars, safeVars, tempVars, mfcVars, localVars,
                   ghostVars, runVars, pc, flowVars, rampVars, alicatVars,
                   frameVars, configVars,
                   auxVars>>

CacheSpec == Init /\ [][CacheNext]_vars

\* ---------------------------------------------------------------------
\* Bronkhorst link (MFCController.set_flow_rate / write_parameter /
\* read_parameter)
\* ---------------------------------------------------------------------
\* Python floats are IEEE 754 binary64.  A positive float is a record
\* [n, exp] that stands for n * 2^exp, where n is a natural number of at
\* most 54 bits written as a sequence of digits of LimbBits bits, most
\* significant first.
Precision == 53
LimbBits == 15
Limb == 2 ^ LimbBits
Zeros(k) == [i \in 1 .. k |-> 0]

RECURSIVE IntLimbs(_)
IntLimbs(v) ==
    IF v = 0 THEN << >> ELSE Append(IntLimbs(v \div Limb), v % Limb)

RECURSIVE LimbsInt(_)
LimbsInt(b) ==
    IF b = << >> THEN 0
    ELSE Limb * LimbsInt(SubSeq(b, 1, Len(b) - 1)) + b[Len(b)]

RECURSIVE StripZeros(_)
StripZeros(b) ==
    IF b # << >> /\ b[1] = 0 THEN StripZeros(Tail(b)) ELSE b

\* the number of bits of b, which has no leading zero digit
BitLength(b) ==
    IF b = << >> THEN 0
    ELSE LimbBits * (Len(b) - 1)
         + (CHOOSE k \in 1 .. LimbBits : 2 ^ (k - 1) <= b[1] /\ b[1] < 2 ^ k)

\* b * k + carry, exactly, for 0 <= k < 2^16
RECURSIVE MulLimbs(_, _, _)
MulLimbs(b, k, carry) ==
    IF b = << >> THEN IntLimbs(carry)
    ELSE LET acc == b[Len(b)] * k + carry
         IN  Append(MulLimbs(SubSeq(b, 1, Len(b) - 1), k, acc \div Limb),
                    acc % Limb)

\* long division of b by d from digit i on, for 0 < d < 2^16: the digits
\* of the quotient and the remainder
RECURSIVE DivLimbs(_, _, _, _)
DivLimbs(b, i, d, rem) ==
    IF i > Len(b) THEN [q |-> << >>, r |-> rem]
    ELSE LET cur  == Limb * rem + b[i]
             rest == DivLimbs(b, i + 1, d, cur % d)
         IN  [q |-> <<cur \div d>> \o rest.q, r |-> rest.r]

\* b without its t lowest bits, and whether one of those bits was set
DropBits(b, t) ==
    LET a    == t \div LimbBits
        high == SubSeq(b, 1, Len(b) - a)
        res  == DivLimbs(high, 1, 2 ^ (t % LimbBits), 0)
    IN  [q |-> StripZeros(res.q),
         lost |-> res.r # 0
                    \/ \E i \in 1 .. Len(b) : i > Len(b) - a /\ b[i] # 0]

\* the float nearest to (b + f) * 2^e, ties to even, where 0 < f < 1 if
\* sticky and f = 0 if not
RoundNearestEven(b, e, sticky) ==
    LET s == StripZeros(b)
        t == BitLength(s) - Precision
    IN  IF t <= 0 THEN [n |-> s, exp |-> e]
        ELSE LET guarded == DropBits(s, t - 1)
                 halved  == DivLimbs(guarded.q, 1, 2, 0)
                 keep    == StripZeros(halved.q)
                 up      == halved.r = 1
                               /\ (sticky \/ guarded.lost
                                     \/ keep[Len(keep)] % 2 = 1)
             IN  [n |-> IF up THEN MulLimbs(keep, 1, 1) ELSE keep,
                  exp |-> e + t]

\* float(v) for an integer 0 < v < 2^31
FloatOf(v) == [n |-> IntLimbs(v), exp |-> 0]

\* x * k and x / d in float arithmetic, for integers 0 < k, d < 2^16; the
\* dividend is extended by GuardLimbs digits so that the quotient has more
\* than Precision + 1 bits
GuardLimbs == 5
FloatTimes(x, k) == RoundNearestEven(MulLimbs(x.n, k, 0), x.exp, FALSE)
FloatOver(x, d) ==
    LET res == DivLimbs(x.n \o Zeros(GuardLimbs), 1, d, 0)
    IN  RoundNearestEven(res.q, x.exp - GuardLimbs * LimbBits, res.r # 0)

\* int(x) for 0 < x < 2^31, and whether x has a fractional part
FloatFloor(x) ==
    IF x.exp >= 0 THEN LimbsInt(x.n) * 2 ^ x.exp
    ELSE IF 0 - x.exp >= BitLength(x.n) THEN 0
    ELSE LimbsInt(DropBits(x.n, 0 - x.exp).q)
FloatHasFraction(x) ==
    /\ x.exp < 0
    /\ \/ 0 - x.exp >= BitLength(x.n)
       \/ DropBits(x.n, 0 - x.exp).lost

\* set_flow_rate, lines 219-225, for flow_rate_sccm > 0 and capacity > 0:
\* percentage = (flow_rate_sccm / self.capacity) * 100.0, at most 100
Percentage(flow, cap) ==
    LET percentage == FloatTimes(FloatOver(FloatOf(flow), cap), 100)
    IN  IF FloatFloor(percentage) > 100
           \/ (FloatFloor(percentage) = 100 /\ FloatHasFraction(percentage))
        THEN FloatOf(100)
        ELSE percentage

\* set_flow_rate, lines 219-228: sccm -> clamped percentage -> integer
\* setpoint, int(percentage / 100.0 * 32000)
SetpointOfFlow(flow, cap) ==
    IF flow <= 0 THEN 0
    ELSE FloatFloor(FloatTimes(FloatOver(Percentage(flow, cap), 100),
                               FullScale))

\* the setpoints of every flow and capacity of the model, computed once
SetpointTable ==
    { <<f, c, SetpointOfFlow(f, c)>> : f \in FlowDomain, c \in CapacityDomain }

FlowToInt(flow, cap) ==
    IF flow \in FlowDomain /\ cap \in CapacityDomain
    THEN (CHOOSE t \in SetpointTable : t[1] = flow /\ t[2] = cap)[3]
    ELSE SetpointOfFlow(flow, cap)

\* write_parameter up to ser.write(message): the request is on the wire
WriteRequest(t, node, flow) ==
    /\ mfc_inflight' = mfc_inflight \cup {t}
    /\ mfc_setpoint' = [mfc_setpoint EXCEPT
                           ![node] = FlowToInt(flow, capacity[node])]

\* read_parameter up to ser.write(message)
ReadRequest(t) ==
    /\ mfc_inflight' = mfc_inflight \cup {t}
    /\ UNCHANGED mfc_setpoint

\* ser.readline(): the exchange of thread t is over
ReadReply(t) ==
    /\ mfc_inflight' = mfc_inflight \ {t}
    /\ UNCHANGED mfc_setpoint

\* The flow writes of trigger_safety_shutdown and emergency_stop, in order
ShutdownFlows == << [node |-> CO2, flow |-> 50],
                    [node |-> H2,  flow |-> 0],
                    [node |-> N2,  flow |-> 100] >>

AdvanceFlow(t, again, done) ==
    IF fidx[t] < Len(ShutdownFlows)
    THEN /\ fidx' = [fidx EXCEPT ![t] = fidx[t] + 1]
         /\ Goto(t, again)
    ELSE /\ fidx' = [fidx EXCEPT ![t] = 0]
         /\ Goto(t, done)

\* "if n in self.mfc_controllers: self.mfc_controllers[n].set_flow_rate(f)":
\* nothing is written when the link is not connected or capacity <= 0
ShutdownFlowRequest(t, at, wait, done) ==
    /\ pc[t] = at
    /\ LET w == ShutdownFlows[fidx[t]] IN
       IF mfc_controllers /\ capacity[w.node] > 0
       THEN /\ WriteRequest(t, w.node, w.flow)
            /\ Goto(t, wait)
            /\ UNCHANGED fidx
       ELSE /\ AdvanceFlow(t, at, done)
            /\ UNCHANGED mfcVars
    /\ UNCHANGED <<cfgVars, btnVars, safeVars, tempVars, rd, desired, current_setpoint, pk, sideVars,
                   ghostVars, runVars>>

ShutdownFlowReply(t, at, wait, done) ==
    /\ pc[t] = wait
    /\ ReadReply(t)
    /\ AdvanceFlow(t, at, done)
    /\ UNCHANGED <<cfgVars, btnVars, safeVars, tempVars, rd, desired, current_setpoint, pk, sideVars,
                   ghostVars, runVars>>

\* ---------------------------------------------------------------------
\* Safety supervisor (check_safety_conditions, trigger_safety_shutdown)
\* ---------------------------------------------------------------------
\* Mutants of SafetyGuard: one half of the test at line 1625 is forgotten
SafetyGuardIgnoresTrigger == maintenance_mode
SafetyGuardIgnoresMaintenance == safety_triggered

\* line 1625: "if self.maintenance_mode or self.safety_triggered: return"
SafetyGuard == maintenance_mode \/ safety_triggered

\* Mutant of OverThreshold: ">" written for ">="
OverThresholdStrict(r) ==
    r[1] > Threshold \/ r[2] > Threshold \/ r[3] > Threshold

\* line 1632
OverThreshold(r) ==
    r[1] >= Threshold \/ r[2] >= Threshold \/ r[3] >= Threshold

\* Mutant of CheckSafetyConditions: a triggered supervisor that sees normal
\* readings again goes back to Active by itself
CheckSafetyConditionsAutoClear(t) ==
    /\ pc[t] = "check"
    /\ IF maintenance_mode
       THEN Goto(t, "loop") /\ UNCHANGED safety_triggered
       ELSE IF safety_triggered
       THEN Goto(t, "loop") /\ safety_triggered' = OverThreshold(rd[t])
       ELSE IF OverThreshold(rd[t])
       THEN Goto(t, "ts_set") /\ UNCHANGED safety_triggered
       ELSE Goto(t, "loop") /\ UNCHANGED safety_triggered
    /\ rd' = [rd EXCEPT ![t] = NoReading]
    /\ UNCHANGED <<cfgVars, btnVars, maintenance_mode, tempVars, mfcVars,
                   desired, current_setpoint, fidx, pk, sideVars, ghostVars, runVars>>

\* check_safety_conditions(rd[t]) up to the call of trigger_safety_shutdown
CheckSafetyConditions(t) ==
    /\ pc[t] = "check"
    /\ IF SafetyGuard THEN Goto(t, "loop")
       ELSE IF OverThreshold(rd[t]) THEN Goto(t, "ts_set")
       ELSE Goto(t, "loop")
    /\ rd' = [rd EXCEPT ![t] = NoReading]
    /\ UNCHANGED <<cfgVars, btnVars, safeVars, tempVars, mfcVars, desired, current_setpoint,
                   fidx, pk, sideVars, ghostVars, runVars>>

\* trigger_safety_shutdown, line 1754: self.safety_triggered = True
TriggerSet(t) ==
    /\ pc[t] = "ts_set"
    /\ safety_triggered' = TRUE
    /\ shutdown_runs' = shutdown_runs + 1
    /\ fidx' = [fidx EXCEPT ![t] = 1]
    /\ Goto(t, "ts_flow")
    /\ UNCHANGED <<cfgVars, btnVars, maintenance_mode, tempVars, mfcVars,
                   rd, desired, current_setpoint, pk, sideVars, safe_written, runVars>>

\* lines 1762-1770
TriggerFlowRequest(t) ==
    ShutdownFlowRequest(t, "ts_flow", "ts_flow_r",
                        IF temp_controllers THEN "ts_get1" ELSE "ts_mail")
TriggerFlowReply(t) ==
    ShutdownFlowReply(t, "ts_flow", "ts_flow_r",
                      IF temp_controllers THEN "ts_get1" ELSE "ts_mail")

\* lines 1776, 1781, 1789: read, set 20, read again; each takes the lock
TriggerAcquire(t) ==
    /\ \/ AcquireLock(t, "ts_get1", "ts_get1_b")
       \/ AcquireLock(t, "ts_put", "ts_put_b")
       \/ AcquireLock(t, "ts_get2", "ts_get2_b")
    /\ UNCHANGED <<cfgVars, btnVars, safeVars, last_temp_readings,
                   dev_setpoint, mfcVars, localVars, sideVars, ghostVars, runVars>>

TriggerRead(t) ==
    /\ \/ pc[t] = "ts_get1_b" /\ Goto(t, "ts_put")
       \/ pc[t] = "ts_get2_b" /\ Goto(t, "ts_mail")
    /\ \E res \in ReadingSpace : GetTempReadings(t, res)
    /\ UNCHANGED <<cfgVars, btnVars, safeVars, mfcVars, localVars, sideVars,
                   ghostVars, runVars>>

TriggerWriteSafe(t) ==
    /\ pc[t] = "ts_put_b"
    /\ SetTempSetpoint(t, SafeSetpoint, TRUE)
    /\ Goto(t, "ts_get2")
    /\ UNCHANGED <<cfgVars, btnVars, safeVars, mfcVars, localVars, sideVars,
                   shutdown_runs, runVars>>

\* line 1803: send_safety_email(reason); the worker then resumes its loop
TriggerNotify(t) ==
    /\ pc[t] = "ts_mail"
    /\ Goto(t, "loop")
    /\ UNCHANGED <<cfgVars, btnVars, safeVars, tempVars, mfcVars, localVars, sideVars,
                   ghostVars, runVars>>

TriggerSafetyShutdown(t) ==
    \/ TriggerSet(t)
    \/ TriggerFlowRequest(t)
    \/ TriggerFlowReply(t)
    \/ TriggerAcquire(t)
    \/ TriggerRead(t)
    \/ TriggerWriteSafe(t)
    \/ TriggerNotify(t)

\* ---------------------------------------------------------------------
\* monitor_temperature_readings (thread "mon")
\* ---------------------------------------------------------------------
\* "while ... self.temp_controllers:" then get_temp_readings_threadsafe()
MonitorAcquire ==
    /\ temp_controllers
    /\ AcquireLock("mon", "loop", "m_get_b")
    /\ UNCHANGED <<cfgVars, btnVars, safeVars, last_temp_readings,
                   dev_setpoint, mfcVars, localVars, sideVars, ghostVars, runVars>>

\* lines 1113-1122: a complete triple goes to check_safety_conditions
MonitorRead ==
    /\ pc["mon"] = "m_get_b"
    /\ \E res \in ReadingSpace :
          /\ GetTempReadings("mon", res)
          /\ rd' = [rd EXCEPT !["mon"] = res]
          /\ Goto("mon", IF res # NoReading THEN "check" ELSE "loop")
    /\ UNCHANGED <<cfgVars, btnVars, safeVars, mfcVars, desired, current_setpoint, fidx, pk, sideVars,
                   ghostVars, runVars>>

\* ---------------------------------------------------------------------
\* run_temp_control_loop (thread "ramp")
\* ---------------------------------------------------------------------
\* lines 1360-1399: the loop test, the safety test and the scheduler; the
\* elapsed time is free, so the scheduler can select any ramp temperature
RampHead ==
    /\ pc["ramp"] = "loop"
    /\ IF ~temp_control_running
       THEN Goto("ramp", "fin") /\ UNCHANGED desired
       ELSE IF safety_triggered
       THEN Goto("ramp", "rs_get") /\ UNCHANGED desired
       ELSE /\ \E d \in RampTemps : desired' = d
            /\ Goto("ramp", "r_get")
    /\ UNCHANGED <<cfgVars, btnVars, safeVars, tempVars, mfcVars, rd,
                   current_setpoint, fidx, pk, sideVars, ghostVars, runVars>>

RampAcquire ==
    /\ \/ AcquireLock("ramp", "r_get", "r_get_b")
       \/ AcquireLock("ramp", "r_put", "r_put_b")
       \/ AcquireLock("ramp", "r_log", "r_log_b")
       \/ AcquireLock("ramp", "rs_get", "rs_get_b")
       \/ AcquireLock("ramp", "rs_put", "rs_put_b")
    /\ UNCHANGED <<cfgVars, btnVars, safeVars, last_temp_readings,
                   dev_setpoint, mfcVars, localVars, sideVars, ghostVars, runVars>>

\* line 1402: _, _, current_setpoint = the triple returned
SetpointOf(res) == IF res = NoReading THEN NoSetpoint ELSE res[3]

\* Faulty variant of WriteNeeded: a missing setpoint counts as different
WriteNeededOrMissing(cur, d) == d # cur

\* line 1403: current_setpoint is not None and desired_set_point !=
\* current_setpoint
WriteNeeded(cur, d) == cur # NoSetpoint /\ d # cur

\* lines 1402-1403: write only if a setpoint was read and it differs
RampReadSetpoint ==
    /\ pc["ramp"] = "r_get_b"
    /\ \E res \in ReadingSpace :
          /\ GetTempReadings("ramp", res)
          /\ IF WriteNeeded(SetpointOf(res), desired)
             THEN /\ Goto("ramp", "r_put")
                  /\ current_setpoint' = SetpointOf(res)
                  /\ UNCHANGED desired
             ELSE /\ Goto("ramp", "r_log")
                  /\ current_setpoint' = NoSetpoint
                  /\ desired' = 0
    /\ UNCHANGED <<cfgVars, btnVars, safeVars, mfcVars, rd, fidx, pk, sideVars,
                   ghostVars, runVars>>

\* line 1404: set_temp_setpoint_threadsafe(desired_set_point)
RampWriteSetpoint ==
    /\ pc["ramp"] = "r_put_b"
    /\ SetTempSetpoint("ramp", desired, FALSE)
    /\ desired' = 0
    /\ current_setpoint' = NoSetpoint
    /\ Goto("ramp", "r_log")
    /\ UNCHANGED <<cfgVars, btnVars, safeVars, mfcVars, rd, fidx, pk, sideVars,
                   shutdown_runs, runVars>>

\* line 1411: the readings that are logged and then checked
RampReadStatus ==
    /\ pc["ramp"] = "r_log_b"
    /\ \E res \in ReadingSpace :
          /\ GetTempReadings("ramp", res)
          /\ rd' = [rd EXCEPT !["ramp"] = res]
          /\ Goto("ramp", IF res # NoReading THEN "r_write" ELSE "loop")
    /\ UNCHANGED <<cfgVars, btnVars, safeVars, mfcVars, desired, current_setpoint, fidx, pk, sideVars,
                   ghostVars, runVars>>

\* lines 1414-1446: self.temp_log_file.write(...) raises when the file has
\* been released; the handler at line 1452 then skips the safety check
RampLogWrite ==
    /\ pc["ramp"] = "r_write"
    /\ IF temp_log_file
       THEN Goto("ramp", "check") /\ UNCHANGED rd
       ELSE Goto("ramp", "loop") /\ rd' = [rd EXCEPT !["ramp"] = NoReading]
    /\ UNCHANGED <<cfgVars, btnVars, safeVars, tempVars, mfcVars, desired, current_setpoint,
                   fidx, pk, sideVars, ghostVars, runVars>>

\* lines 1369-1378: the safety branch reads the setpoint; formatting a
\* missing setpoint at line 1378 raises and the iteration is abandoned
RampSafetyRead ==
    /\ pc["ramp"] = "rs_get_b"
    /\ \E res \in ReadingSpace :
          /\ GetTempReadings("ramp", res)
          /\ Goto("ramp", IF res = NoReading THEN "loop"
                          ELSE IF res[3] # SafeSetpoint THEN "rs_put"
                          ELSE "rs_stop")
    /\ UNCHANGED <<cfgVars, btnVars, safeVars, mfcVars, localVars, sideVars,
                   ghostVars, runVars>>

\* line 1372
RampSafetyWrite ==
    /\ pc["ramp"] = "rs_put_b"
    /\ SetTempSetpoint("ramp", SafeSetpoint, TRUE)
    /\ Goto("ramp", "rs_stop")
    /\ UNCHANGED <<cfgVars, btnVars, safeVars, mfcVars, localVars, sideVars,
                   shutdown_runs, runVars>>

\* lines 1381-1393: the worker stops itself and leaves the loop
RampSafetyStop ==
    /\ pc["ramp"] = "rs_stop"
    /\ temp_control_running' = FALSE
    /\ start_temp_btn' = TRUE
    /\ stop_temp_btn' = FALSE
    /\ Goto("ramp", "fin")
    /\ UNCHANGED <<cfgVars, safeVars, tempVars, mfcVars, localVars, sideVars,
                   ghostVars, temp_log_file>>

\* lines 1460-1464: finally
RampFinally ==
    /\ pc["ramp"] = "fin"
    /\ temp_log_file' = FALSE
    /\ Goto("ramp", "idle")
    /\ UNCHANGED <<cfgVars, btnVars, safeVars, tempVars, mfcVars, localVars, sideVars,
                   ghostVars, temp_control_running>>

\* ---------------------------------------------------------------------
\* update_loop / update_mfc_data / check_flow_conditions (thread "poll")
\* ---------------------------------------------------------------------
\* One cycle is get_status for each node (read measure, read setpoint),
\* then check_flow_conditions, which returns at once in maintenance mode
\* and otherwise reads measure and setpoint of each node again.
StatusExchanges == 2 * Len(NodeOrder)
CycleExchanges == 2 * StatusExchanges

PollRequest ==
    /\ pc["poll"] = "loop"
    /\ ReadRequest("poll")
    /\ Goto("poll", "p_rep")
    /\ UNCHANGED <<cfgVars, btnVars, safeVars, tempVars, localVars, sideVars,
                   ghostVars, runVars>>

PollReply ==
    /\ pc["poll"] = "p_rep"
    /\ ReadReply("poll")
    /\ pk' = IF pk = CycleExchanges \/ (pk = StatusExchanges /\ maintenance_mode)
             THEN 1 ELSE pk + 1
    /\ Goto("poll", "loop")
    /\ UNCHANGED <<cfgVars, btnVars, safeVars, tempVars, rd, desired, current_setpoint, fidx,
                   sideVars, ghostVars, runVars>>

\* get_current_flow: 0.0 when read_parameter('measure') returns None,
\* the measured flow otherwise
GetCurrentFlow(r) == IF r.answered THEN r.measure ELSE 0

\* lines 1654-1655: current_flow and setpoint of one node in a poll
Observation(r) == [flow |-> GetCurrentFlow(r), setpoint |-> r.setpoint]

\* the (current_flow, setpoint) pairs a poll can work with
FlowObservations == { Observation(r) : r \in FlowReads }

\* line 1661: "current_flow < 0.9 * setpoint", with line 1658
LowFlow(o) == o.setpoint > 0 /\ 10 * o.flow < 9 * o.setpoint

\* lines 1668-1671: the poll at time t sends a notification for node n
FlowNotification(n, o, t) ==
    /\ LowFlow(o)
    /\ flow_alert_start_times[n] # NoTime
    /\ t - flow_alert_start_times[n] > AlertDelay
    /\ ~flow_alerts[n]

\* lines 1658-1677: self.flow_alert_start_times[n] after the poll
AlertStart(n, o, t) ==
    IF o.setpoint <= 0 THEN flow_alert_start_times[n]
    ELSE IF ~LowFlow(o) THEN NoTime
    ELSE IF flow_alert_start_times[n] = NoTime THEN t
    ELSE flow_alert_start_times[n]

\* lines 1658-1679: self.flow_alerts[n] after the poll
AlertFlag(n, o, t) ==
    IF o.setpoint <= 0 THEN flow_alerts[n]
    ELSE IF ~LowFlow(o) THEN FALSE
    ELSE flow_alerts[n] \/ FlowNotification(n, o, t)

\* check_flow_conditions at the end of a poll cycle, reads being what
\* read_parameter gives for each node and obs what get_current_flow and
\* get_current_setpoint make of it.  The clock is read once, at line 1649.
CheckFlowConditions ==
    /\ pc["poll"] = "loop"
    /\ mfc_controllers
    /\ \E gap \in PollGaps, reads \in [Nodes -> FlowReads] :
       LET obs == [n \in Nodes |-> Observation(reads[n])] IN
          /\ now + gap <= MaxNow
          /\ now' = now + gap
          /\ IF maintenance_mode
             THEN /\ UNCHANGED <<flow_alert_start_times, flow_alerts>>
                  /\ low_since' = [n \in Nodes |-> NoTime]
                  /\ episode_sent' = [n \in Nodes |-> 0]
                  /\ notified_now' = [n \in Nodes |-> FALSE]
                  /\ read_failed' = [n \in Nodes |-> FALSE]
                  /\ UNCHANGED last_ok
             ELSE /\ read_failed' = [n \in Nodes |-> ~reads[n].answered]
                  /\ flow_alert_start_times' =
                         [n \in Nodes |-> AlertStart(n, obs[n], now')]
                  /\ flow_alerts' =
                         [n \in Nodes |-> AlertFlag(n, obs[n], now')]
                  /\ low_since' = [n \in Nodes |->
                         IF ~LowFlow(obs[n]) THEN NoTime
                         ELSE IF low_since[n] = NoTime THEN now'
                         ELSE low_since[n]]
                  /\ episode_sent' = [n \in Nodes |->
                         IF ~LowFlow(obs[n]) THEN 0
                         ELSE IF FlowNotification(n, obs[n], now')
                         THEN episode_sent[n] + 1
                         ELSE episode_sent[n]]
                  /\ notified_now' = [n \in Nodes |->
                         FlowNotification(n, obs[n], now')]
                  /\ last_ok' = [n \in Nodes |->
                         10 * obs[n].flow >= 9 * obs[n].setpoint]
    /\ UNCHANGED <<cfgVars, btnVars, safeVars, tempVars, mfcVars, localVars,
                   ghostVars, runVars, pc, rampVars, alicatVars,
                   frameVars, configVars, cacheVars,
                   auxVars>>

\* ---------------------------------------------------------------------
\* Button handlers (thread "gui")
\* ---------------------------------------------------------------------
ResetEpisode ==
    /\ shutdown_runs' = 0
    /\ safe_written' = FALSE

\* connect_serial, first connection: the controllers read their capacity
\* and the polling thread is started
ConnectSerial ==
    /\ pc["gui"] = "idle"
    /\ ~mfc_controllers
    /\ mfc_controllers' = TRUE
    /\ capacity' \in [Nodes -> CapacityValues]
    /\ pk' = 1
    /\ Goto("poll", "loop")
    /\ UNCHANGED <<temp_controllers, temp_ramp_config, btnVars, safeVars,
                   tempVars, mfcVars, rd, desired, current_setpoint, fidx, sideVars, ghostVars,
                   runVars>>

\* connect_temp_control, first connection: lines 1028-1056
ConnectTempControl ==
    /\ pc["gui"] = "idle"
    /\ ~temp_controllers
    /\ temp_controllers' = TRUE
    /\ start_temp_btn' = TRUE
    /\ Goto("mon", "loop")
    /\ UNCHANGED <<mfc_controllers, capacity, temp_ramp_config, stop_temp_btn,
                   safeVars, tempVars, mfcVars, localVars, sideVars, ghostVars, runVars>>

\* connect_temp_control when already connected, lines 1006-1011: the test
\* reads are made on the GUI thread without temp_controller_lock
ConnectTempControlTestRequest ==
    /\ pc["gui"] = "idle"
    /\ temp_controllers
    /\ temp_inflight' = temp_inflight \cup {"gui"}
    /\ Goto("gui", "ctc_test")
    /\ UNCHANGED <<cfgVars, btnVars, safeVars, temp_controller_lock,
                   last_temp_readings, dev_setpoint, mfcVars, localVars, sideVars,
                   ghostVars, runVars>>

\* lines 1012-1026: the test succeeds and the handler returns, or a read
\* raises and the handler goes on to reconnect
ConnectTempControlTestReply ==
    /\ pc["gui"] = "ctc_test"
    /\ temp_inflight' = temp_inflight \ {"gui"}
    /\ \E ok \in BOOLEAN : Goto("gui", IF ok THEN "idle" ELSE "ctc_again")
    /\ UNCHANGED <<cfgVars, btnVars, safeVars, temp_controller_lock,
                   last_temp_readings, dev_setpoint, mfcVars, localVars, sideVars,
                   ghostVars, runVars>>

\* lines 1028-1042: the reconnection makes new controllers and tests them,
\* again without the lock
ConnectTempControlRetestRequest ==
    /\ pc["gui"] = "ctc_again"
    /\ temp_inflight' = temp_inflight \cup {"gui"}
    /\ Goto("gui", "ctc_retest")
    /\ UNCHANGED <<cfgVars, btnVars, safeVars, temp_controller_lock,
                   last_temp_readings, dev_setpoint, mfcVars, localVars, sideVars,
                   ghostVars, runVars>>

\* lines 1043-1062: start_temp_monitoring finds the thread already made
ConnectTempControlRetestReply ==
    /\ pc["gui"] = "ctc_retest"
    /\ temp_inflight' = temp_inflight \ {"gui"}
    /\ start_temp_btn' = TRUE
    /\ Goto("gui", "idle")
    /\ UNCHANGED <<cfgVars, stop_temp_btn, safeVars, temp_controller_lock,
                   last_temp_readings, dev_setpoint, mfcVars, localVars, sideVars,
                   ghostVars, runVars>>

ConnectTempControlTest ==
    \/ ConnectTempControlTestRequest
    \/ ConnectTempControlTestReply
    \/ ConnectTempControlRetestRequest
    \/ ConnectTempControlRetestReply

\* upload_temp_ramp with a well-formed file
UploadTempRamp ==
    /\ pc["gui"] = "idle"
    /\ ~temp_ramp_config
    /\ temp_ramp_config' = TRUE
    /\ UNCHANGED <<temp_controllers, mfc_controllers, capacity, btnVars,
                   safeVars, tempVars, mfcVars, localVars, sideVars, ghostVars, runVars,
                   pc>>

\* set_mfc_flow for a Bronkhorst node: one write exchange
SetMfcFlowRequest ==
    /\ pc["gui"] = "idle"
    /\ mfc_controllers
    /\ \E node \in Nodes, flow \in FlowInputs :
          /\ capacity[node] > 0
          /\ WriteRequest("gui", node, flow)
    /\ Goto("gui", "sf_rep")
    /\ UNCHANGED <<cfgVars, btnVars, safeVars, tempVars, localVars, sideVars,
                   ghostVars, runVars>>

SetMfcFlowReply ==
    /\ pc["gui"] = "sf_rep"
    /\ ReadReply("gui")
    /\ Goto("gui", "idle")
    /\ UNCHANGED <<cfgVars, btnVars, safeVars, tempVars, localVars, sideVars,
                   ghostVars, runVars>>

\* toggle_maintenance_mode, line 1883: the flag follows the check box
ToggleMaintenanceFlag ==
    /\ pc["gui"] = "idle"
    /\ maintenance_mode' = ~maintenance_mode
    /\ Goto("gui", IF maintenance_mode THEN "tm_clear" ELSE "idle")
    /\ UNCHANGED <<cfgVars, btnVars, safety_triggered, tempVars, mfcVars,
                   localVars, sideVars, ghostVars, runVars>>

\* Mutant of ToggleMaintenanceClear: line 1888 is missing
ToggleMaintenanceKeeps ==
    /\ pc["gui"] = "tm_clear"
    /\ Goto("gui", "idle")
    /\ UNCHANGED <<cfgVars, btnVars, safeVars, tempVars, mfcVars, localVars, sideVars,
                   ghostVars, runVars>>

\* toggle_maintenance_mode, line 1888, on leaving maintenance mode
ToggleMaintenanceClear ==
    /\ pc["gui"] = "tm_clear"
    /\ safety_triggered' = FALSE
    /\ ResetEpisode
    /\ Goto("gui", "idle")
    /\ UNCHANGED <<cfgVars, btnVars, maintenance_mode, tempVars, mfcVars,
                   localVars, sideVars, runVars>>

\* start_temp_control, lines 1222-1236: the guards and the safety reset.
\* One control thread is modelled: a start waits for the previous one to end.
StartTempControl ==
    /\ pc["gui"] = "idle"
    /\ start_temp_btn
    /\ temp_ramp_config
    /\ temp_controllers
    /\ pc["ramp"] = "idle"
    /\ IF safety_triggered
       THEN safety_triggered' = FALSE /\ ResetEpisode
       ELSE UNCHANGED <<safety_triggered, ghostVars>>
    /\ Goto("gui", "stc_name")
    /\ UNCHANGED <<cfgVars, btnVars, maintenance_mode, tempVars, mfcVars,
                   localVars, sideVars, runVars>>

\* start_temp_control, lines 1246-1253: the file name dialog is cancelled
StartTempControlCancel ==
    /\ pc["gui"] = "stc_name"
    /\ Goto("gui", "idle")
    /\ UNCHANGED <<cfgVars, btnVars, safeVars, tempVars, mfcVars, localVars, sideVars,
                   ghostVars, runVars>>

\* start_temp_control_thread, then lines 1264-1266
StartTempControlThread ==
    /\ pc["gui"] = "stc_name"
    /\ temp_log_file' = TRUE
    /\ temp_control_running' = TRUE
    /\ start_temp_btn' = FALSE
    /\ stop_temp_btn' = TRUE
    /\ pc' = [pc EXCEPT !["gui"] = "idle", !["ramp"] = "loop"]
    /\ UNCHANGED <<cfgVars, safeVars, tempVars, mfcVars, localVars, sideVars, ghostVars>>

\* stop_temp_control
StopTempControl ==
    /\ pc["gui"] = "idle"
    /\ stop_temp_btn
    /\ temp_control_running' = FALSE
    /\ temp_log_file' = FALSE
    /\ start_temp_btn' = TRUE
    /\ stop_temp_btn' = FALSE
    /\ UNCHANGED <<cfgVars, safeVars, tempVars, mfcVars, localVars, sideVars, ghostVars,
                   pc>>

\* emergency_stop, line 1894
EmergencyStopSet ==
    /\ pc["gui"] = "idle"
    /\ safety_triggered' = TRUE
    /\ fidx' = [fidx EXCEPT !["gui"] = 1]
    /\ Goto("gui", "es_flow")
    /\ UNCHANGED <<cfgVars, btnVars, maintenance_mode, tempVars, mfcVars, rd,
                   desired, current_setpoint, pk, sideVars, ghostVars, runVars>>

\* emergency_stop, lines 1897-1902
EmergencyStopFlowRequest ==
    ShutdownFlowRequest("gui", "es_flow", "es_flow_r",
                        IF temp_controllers THEN "es_get1" ELSE "idle")
EmergencyStopFlowReply ==
    ShutdownFlowReply("gui", "es_flow", "es_flow_r",
                      IF temp_controllers THEN "es_get1" ELSE "idle")

\* emergency_stop, lines 1910-1930
EmergencyStopAcquire ==
    /\ \/ AcquireLock("gui", "es_get1", "es_get1_b")
       \/ AcquireLock("gui", "es_put", "es_put_b")
       \/ AcquireLock("gui", "es_get2", "es_get2_b")
    /\ UNCHANGED <<cfgVars, btnVars, safeVars, last_temp_readings,
                   dev_setpoint, mfcVars, localVars, sideVars, ghostVars, runVars>>

EmergencyStopRead ==
    /\ \/ pc["gui"] = "es_get1_b" /\ Goto("gui", "es_put")
       \/ pc["gui"] = "es_get2_b" /\ Goto("gui", "idle")
    /\ \E res \in ReadingSpace : GetTempReadings("gui", res)
    /\ UNCHANGED <<cfgVars, btnVars, safeVars, mfcVars, localVars, sideVars,
                   ghostVars, runVars>>

EmergencyStopWriteSafe ==
    /\ pc["gui"] = "es_put_b"
    /\ SetTempSetpoint("gui", SafeSetpoint, TRUE)
    /\ Goto("gui", "es_get2")
    /\ UNCHANGED <<cfgVars, btnVars, safeVars, mfcVars, localVars, sideVars,
                   shutdown_runs, runVars>>

EmergencyStop ==
    \/ EmergencyStopSet
    \/ EmergencyStopFlowRequest
    \/ EmergencyStopFlowReply
    \/ EmergencyStopAcquire
    \/ EmergencyStopRead
    \/ EmergencyStopWriteSafe

\* ---------------------------------------------------------------------
\* ProPar codec (mfc_controller.py, build_propar_message /
\* parse_propar_response).  Bytes are 0 .. 255; a message or a response is
\* its text, a sequence of ASCII codes.
\* ---------------------------------------------------------------------
Min(a, b) == IF a < b THEN a ELSE b
Reverse(s) == [i \in 1 .. Len(s) |-> s[Len(s) + 1 - i]]

\* Python slice s[a:b] of a sequence
Slice(s, a, b) == SubSeq(s, a + 1, Min(b, Len(s)))

RECURSIVE Flatten(_)
Flatten(ss) == IF ss = << >> THEN << >> ELSE Head(ss) \o Flatten(Tail(ss))

\* format "02X" of one byte
HexDigit(n) == IF n < 10 THEN 48 + n ELSE 55 + n
Hex2(b) == <<HexDigit(b \div 16), HexDigit(b % 16)>>
\* bytes.hex().upper()
HexUpper(bs) == Flatten([i \in 1 .. Len(bs) |-> Hex2(bs[i])])

\* int(s, 16) and bytes.fromhex(s): the value of a hexadecimal digit
IsHexChar(c) == c \in (48 .. 57) \cup (65 .. 70) \cup (97 .. 102)
HexVal(c) == IF c <= 57 THEN c - 48 ELSE IF c <= 70 THEN c - 55 ELSE c - 87
IsHexText(s) == \A i \in 1 .. Len(s) : IsHexChar(s[i])
\* bytes.fromhex(data_hex), defined when data_hex is an even number of
\* hexadecimal digits
FromHex(s) ==
    [i \in 1 .. (Len(s) \div 2) |-> 16 * HexVal(s[2 * i - 1]) + HexVal(s[2 * i])]

\* str.strip() and bytes.strip()
StripLeft(s) ==
    IF \A i \in 1 .. Len(s) : s[i] \in Whitespace THEN << >>
    ELSE SubSeq(s, CHOOSE i \in 1 .. Len(s) :
                      /\ s[i] \notin Whitespace
                      /\ \A j \in 1 .. (i - 1) : s[j] \in Whitespace,
                Len(s))
Strip(s) == Reverse(StripLeft(Reverse(StripLeft(s))))

\* int.to_bytes(2, 'big') and int.from_bytes(bs, 'big')
ToBytes2(v) == <<v \div 256, v % 256>>
RECURSIVE FromBytes(_)
FromBytes(bs) ==
    IF bs = << >> THEN 0
    ELSE 256 * FromBytes(SubSeq(bs, 1, Len(bs) - 1)) + bs[Len(bs)]

\* build_propar_message, lines 62-75: the value bytes of a write command
WriteValueBytes(param_type, value) ==
    IF param_type = "int" THEN ToBytes2(value)
    ELSE <<Len(value) % 256>> \o value

\* build_propar_message for command 0x01
BuildWriteMessage(node, process, fbnr, param_type, value) ==
    LET type_bits == IF param_type = "int" THEN 32 ELSE 96
        data_bytes == <<1, process % 128, type_bits + (fbnr % 32)>>
                      \o WriteValueBytes(param_type, value)
    IN  <<Colon>> \o Hex2(1 + Len(data_bytes)) \o Hex2(node)
        \o HexUpper(data_bytes) \o <<13, 10>>

\* the results of parse_propar_response
NoValue == [tag |-> "None", value |-> 0]
Raised == [tag |-> "raise", value |-> 0]

\* lines 118-125: the value of a data response
DecodeData(value_bytes, expected_type) ==
    IF expected_type = "int"
    THEN [tag |-> "int", value |-> FromBytes(value_bytes)]
    ELSE IF expected_type = "str"
    THEN IF value_bytes = << >> THEN Raised
         ELSE [tag |-> "str",
               value |-> Strip(Slice(value_bytes, 1, 1 + value_bytes[1]))]
    ELSE NoValue

\* Faulty variant of StatusValue: any status byte is a success
StatusValueAny(status) == [tag |-> "True", value |-> 0]

\* lines 110-115: the value of a status message
StatusValue(status) ==
    IF status = 0 THEN [tag |-> "True", value |-> 0] ELSE NoValue

\* line 104
LengthMatches(data_bytes, length) == ~((1 + Len(data_bytes)) # length)

\* parse_propar_response(response_bytes, expected_type)
ParseProparResponse(response_bytes, expected_type) ==
    IF response_bytes = << >> THEN NoValue
    ELSE LET stripped == Strip(response_bytes) IN
    IF stripped = << >> \/ stripped[1] # Colon THEN NoValue
    ELSE LET response_str == Tail(stripped)
             length_str == Slice(response_str, 0, 2)
             node_str == Slice(response_str, 2, 4)
             data_hex == Slice(response_str, 4, Len(response_str)) IN
    IF \/ Len(length_str) < 2 \/ ~IsHexText(length_str)
       \/ Len(node_str) < 2 \/ ~IsHexText(node_str)
       \/ ~IsHexText(data_hex) \/ Len(data_hex) % 2 # 0
    THEN Raised
    ELSE LET length == 16 * HexVal(length_str[1]) + HexVal(length_str[2])
             data_bytes == FromHex(data_hex) IN
    IF ~LengthMatches(data_bytes, length) THEN NoValue
    ELSE IF data_bytes = << >> THEN Raised
    ELSE IF data_bytes[1] = 0
         THEN IF Len(data_bytes) < 2 THEN Raised
              ELSE StatusValue(data_bytes[2])
    ELSE IF data_bytes[1] = 2
         THEN DecodeData(Slice(data_bytes, 3, Len(data_bytes)), expected_type)
    ELSE NoValue

\* build_propar_message for command 0x04
BuildReadMessage(node, process, fbnr, param_type, str_len) ==
    LET type_bits == IF param_type = "int" THEN 32 ELSE 96
        data_bytes == <<4, process % 128, type_bits + 1,
                        process % 128, type_bits + (fbnr % 32)>>
                      \o (IF param_type = "str" THEN <<str_len>> ELSE << >>)
    IN  <<Colon>> \o Hex2(1 + Len(data_bytes)) \o Hex2(node)
        \o HexUpper(data_bytes) \o <<13, 10>>

\* the bytes of a response composed as reply r by node 3
ResponseText(r) ==
    r.lead \o (IF r.colon THEN <<Colon>> ELSE << >>)
    \o Hex2(1 + Len(r.data) + r.delta) \o Hex2(3) \o HexUpper(r.data)
    \o <<13, 10>>

\* what the device can answer: a status message (accepted or error 4), a
\* data response with the integer 32000 or with the string "N2 ", each
\* as a proper frame, with a wrong length field, without its ':' or after
\* a blank; and nothing at all
ReplyData == { <<0, 0, 5>>, <<0, 4, 5>>, <<2, 1, 33, 125, 0>>,
               <<2, 1, 113, 3, 78, 50, 32>> }
ProparReplies ==
    { [lead |-> l, colon |-> c, delta |-> d, data |-> b] :
        l \in {<< >>, <<32>>}, c \in BOOLEAN, d \in {0, 1}, b \in ReplyData }

\* a data response (command 0x02) of node 3 whose value bytes are those
\* the write encoding gives, after the three bytes command, process,
\* parameter, with the right length field
DataReplyFor(param_type, value) ==
    ResponseText([lead |-> << >>, colon |-> TRUE, delta |-> 0,
                  data |-> <<2, 1, IF param_type = "int" THEN 33 ELSE 113>>
                           \o WriteValueBytes(param_type, value)])

\* build_propar_message's value encoding applied to a value
CodecEncode ==
    /\ cd_pc \in {"idle", "decoded"}
    /\ \E ty \in {"int", "str"} :
          \E v \in IF ty = "int" THEN Int16Samples ELSE CodecStrings :
             /\ cd_type' = ty
             /\ cd_value' = v
             /\ cd_frame' = DataReplyFor(ty, v)
    /\ cd_decoded' = "none"
    /\ cd_pc' = "encoded"
    /\ UNCHANGED <<cfgVars, btnVars, safeVars, tempVars, mfcVars, localVars,
                   ghostVars, runVars, pc, flowVars, rampVars, alicatVars,
                   proparVars, configVars, cacheVars,
                   auxVars>>

\* parse_propar_response applied to the frame
CodecDecode ==
    /\ cd_pc = "encoded"
    /\ cd_decoded' = ParseProparResponse(cd_frame, cd_type)
    /\ cd_pc' = "decoded"
    /\ UNCHANGED <<cd_type, cd_value, cd_frame>>
    /\ UNCHANGED <<cfgVars, btnVars, safeVars, tempVars, mfcVars, localVars,
                   ghostVars, runVars, pc, flowVars, rampVars, alicatVars,
                   proparVars, configVars, cacheVars,
                   auxVars>>

CodecNext == CodecEncode \/ CodecDecode

CodecSpec == Init /\ [][CodecNext]_vars

\* ---------------------------------------------------------------------
\* Bronkhorst transactions (mfc_controller.py, set_flow_rate /
\* write_parameter / read_parameter)
\* ---------------------------------------------------------------------
\* Faulty variant of CapacityKnown: only a zero capacity is refused
CapacityKnownNonZero(cap) == cap # 0

\* set_flow_rate, line 215: self.capacity <= 0 refuses the call
CapacityKnown(cap) == ~(cap <= 0)

\* set_flow_rate up to ser.write in write_parameter, or to its return
\* when the capacity is unknown
SetFlowRateCall ==
    /\ pp_pc \in {"idle", "done"}
    /\ \E cap \in ProparCapacities, flow \in ProparFlows :
          /\ pp_capacity' = cap
          /\ pp_flow' = flow
          /\ IF CapacityKnown(cap)
             THEN /\ pp_value' = FlowToInt(flow, cap)
                  /\ pp_message' = BuildWriteMessage(3, 1, 1, "int",
                                        FlowToInt(flow, cap))
                  /\ pp_writes' = 1
                  /\ pp_result' = "none"
                  /\ pp_pc' = "written"
             ELSE /\ pp_value' = NoSetpoint
                  /\ pp_message' = << >>
                  /\ pp_writes' = 0
                  /\ pp_result' = "False"
                  /\ pp_pc' = "done"
    /\ pp_op' = "set_flow_rate"
    /\ pp_type' = "status"
    /\ pp_reply' = NoReply
    /\ pp_response' = << >>
    /\ UNCHANGED <<cfgVars, btnVars, safeVars, tempVars, mfcVars, localVars,
                   ghostVars, runVars, pc, flowVars, rampVars, alicatVars,
                   codecVars, configVars, cacheVars,
                   auxVars>>

\* read_parameter('setpoint') or read_parameter('fluid_name') up to
\* ser.write
ReadParameterCall ==
    /\ pp_pc \in {"idle", "done"}
    /\ \E ty \in {"int", "str"} :
          /\ pp_type' = ty
          /\ pp_message' = IF ty = "int"
                           THEN BuildReadMessage(3, 1, 1, "int", 0)
                           ELSE BuildReadMessage(3, 1, 17, "str", 10)
    /\ pp_op' = "read_parameter"
    /\ pp_writes' = 1
    /\ pp_result' = "none"
    /\ pp_reply' = NoReply
    /\ pp_response' = << >>
    /\ pp_pc' = "written"
    /\ UNCHANGED <<pp_capacity, pp_flow, pp_value>>
    /\ UNCHANGED <<cfgVars, btnVars, safeVars, tempVars, mfcVars, localVars,
                   ghostVars, runVars, pc, flowVars, rampVars, alicatVars,
                   codecVars, configVars, cacheVars,
                   auxVars>>

\* write_parameter, lines 176-178: result is True; an exception gives False
WriteResult(response) ==
    IF ParseProparResponse(response, "status").tag = "True"
    THEN "True" ELSE "False"

\* read_parameter, lines 148-155: the parsed value; an exception gives None
ReadResult(response, param_type) ==
    LET value == ParseProparResponse(response, param_type)
    IN  IF value.tag = "raise" THEN NoValue ELSE value

\* ser.readline() and the rest of write_parameter / set_flow_rate or of
\* read_parameter
ProparReply ==
    /\ pp_pc = "written"
    /\ \E r \in ProparReplies \cup {NoReply} :
          /\ pp_reply' = r
          /\ pp_response' = IF r = NoReply THEN << >> ELSE ResponseText(r)
          /\ pp_result' = IF pp_op = "set_flow_rate"
                          THEN WriteResult(pp_response')
                          ELSE ReadResult(pp_response', pp_type)
    /\ pp_pc' = "done"
    /\ UNCHANGED <<pp_op, pp_capacity, pp_flow, pp_value, pp_type,
                   pp_message, pp_writes>>
    /\ UNCHANGED <<cfgVars, btnVars, safeVars, tempVars, mfcVars, localVars,
                   ghostVars, runVars, pc, flowVars, rampVars, alicatVars,
                   codecVars, configVars, cacheVars,
                   auxVars>>

ProparNext == SetFlowRateCall \/ ReadParameterCall \/ ProparReply

ProparSpec == Init /\ [][ProparNext]_vars

\* ---------------------------------------------------------------------
\* Alicat flow transaction (instruments.py, SerialMFCController.set_flow)
\* ---------------------------------------------------------------------
Abs(x) == IF x < 0 THEN 0 - x ELSE x

Responses(target) ==
    { [kind |-> "empty", setpoint |-> 0, mass_flow |-> 0],
      [kind |-> "malformed", setpoint |-> 0, mass_flow |-> 0],
      [kind |-> "badnumber", setpoint |-> 0, mass_flow |-> 0] }
    \cup { [kind |-> "status", setpoint |-> target + d, mass_flow |-> m] :
              d \in EchoOffsets, m \in MassFlows }

\* Faulty variant of SetpointVerified: any status line is accepted
SetpointVerifiedAlways(resp, target) == resp.kind = "status"

\* lines 109-117: the response is non-empty, parses, and its setpoint is
\* less than 0.01 from flow_rate
SetpointVerified(resp, target) ==
    /\ resp.kind = "status"
    /\ ~(Abs(resp.setpoint - target) >= SetpointTolerance)

\* the ValueError an attempt raises: lines 112-113 (empty response),
\* parse_raw_response line 30 (not 7 columns), float() in lines 39-43
\* (7 columns, one not a number), lines 118-119 (setpoint mismatch)
Cause(resp) ==
    CASE resp.kind = "empty" -> "empty"
      [] resp.kind = "malformed" -> "malformed"
      [] resp.kind = "badnumber" -> "badnumber"
      [] OTHER -> "mismatch"

\* the phrases of the messages that set_mfc_flow searches for, as contained
\* in str(e) of the RuntimeError of line 124, which embeds the last error
ErrorText(cause) ==
    {"Failed to set Alicat MFC flow rate after"}
    \cup (CASE cause = "empty" -> {"Empty response"}
           [] cause = "malformed" -> {"Invalid response format"}
           [] cause = "mismatch" -> {"Setpoint mismatch"}
           [] OTHER -> {})

\* Faulty variant of Diagnose: the aggregate phrase is tested first
DiagnoseAggregateFirst(text) ==
    IF "Failed to set Alicat MFC flow rate after" \in text THEN "multiple"
    ELSE IF "Invalid response format" \in text THEN "format"
    ELSE IF "Empty response" \in text THEN "timeout"
    ELSE IF "Setpoint mismatch" \in text THEN "verify"
    ELSE "other"

\* reactor_control_gui_v1.py lines 843-853: the message shown for str(e)
Diagnose(text) ==
    IF "Invalid response format" \in text THEN "format"
    ELSE IF "Empty response" \in text THEN "timeout"
    ELSE IF "Setpoint mismatch" \in text THEN "verify"
    ELSE IF "Failed to set Alicat MFC flow rate after" \in text
         THEN "multiple"
    ELSE "other"

\* Faulty variant of LastAttempt: one attempt too many
LastAttemptLate(attempt, max_retries) == attempt = max_retries

\* line 122: attempt == max_retries - 1
LastAttempt(attempt, max_retries) == attempt = max_retries - 1

\* set_mfc_flow up to its call of set_flow(flow_rate, max_retries), and
\* line 100: range(max_retries) is empty when max_retries <= 0, the loop
\* body is never entered and the call returns None
SetFlowCall ==
    /\ sf_pc \in {"idle", "done"}
    /\ sf_sleeps' = 0
    /\ sf_error' = "none"
    /\ sf_message' = "none"
    /\ sf_causes' = << >>
    /\ sf_flow_rate' \in SetFlowTargets
    /\ sf_max_retries' \in RetryLimits
    /\ sf_attempt' = 0
    /\ sf_response' = NoStatus
    /\ sf_result' = NoStatus
    /\ sf_writes' = 0
    /\ sf_failed' = 0
    /\ sf_pc' = IF 0 < sf_max_retries' THEN "write" ELSE "fellthrough"
    /\ UNCHANGED <<cfgVars, btnVars, safeVars, tempVars, mfcVars, localVars,
                   ghostVars, runVars, pc, flowVars, rampVars,
                   frameVars, configVars, cacheVars,
                   auxVars>>

\* lines 103-106: self.ser.write(...)
SetFlowWrite ==
    /\ sf_pc = "write"
    /\ sf_writes' = sf_writes + 1
    /\ sf_pc' = "read"
    /\ UNCHANGED <<sf_flow_rate, sf_max_retries, sf_attempt, sf_response,
                   sf_result, sf_failed, sf_sleeps, sf_error, sf_message,
                   sf_causes>>
    /\ UNCHANGED <<cfgVars, btnVars, safeVars, tempVars, mfcVars, localVars,
                   ghostVars, runVars, pc, flowVars, rampVars,
                   frameVars, configVars, cacheVars,
                   auxVars>>

\* lines 107-128: the response is read and verified; the status is
\* returned, or the attempt fails and the loop goes on or raises
SetFlowRead ==
    /\ sf_pc = "read"
    /\ \E resp \in Responses(sf_flow_rate) :
          /\ sf_response' = resp
          /\ IF SetpointVerified(resp, sf_flow_rate)
             THEN /\ sf_result' = resp
                  /\ sf_pc' = "returned"
                  /\ UNCHANGED <<sf_attempt, sf_failed, sf_sleeps, sf_error,
                                 sf_causes>>
             ELSE /\ sf_failed' = sf_failed + 1
                  /\ sf_causes' = Append(sf_causes, Cause(resp))
                  /\ UNCHANGED sf_result
                  /\ IF LastAttempt(sf_attempt, sf_max_retries)
                     THEN /\ sf_pc' = "raised"
                          /\ sf_error' = Cause(resp)
                          /\ UNCHANGED <<sf_attempt, sf_sleeps>>
                     ELSE /\ sf_attempt < sf_max_retries
                          /\ sf_sleeps' = sf_sleeps + 1
                          /\ sf_attempt' = sf_attempt + 1
                          /\ sf_pc' = IF sf_attempt + 1 < sf_max_retries
                                      THEN "write" ELSE "fellthrough"
                          /\ UNCHANGED sf_error
    /\ UNCHANGED <<sf_flow_rate, sf_max_retries, sf_writes, sf_message>>
    /\ UNCHANGED <<cfgVars, btnVars, safeVars, tempVars, mfcVars, localVars,
                   ghostVars, runVars, pc, flowVars, rampVars,
                   frameVars, configVars, cacheVars,
                   auxVars>>

\* reactor_control_gui_v1.py lines 838-855: set_mfc_flow after set_flow
\* has returned (the input is cleared) or raised (an error is shown)
SetMfcFlowReport ==
    /\ sf_pc \in {"returned", "raised", "fellthrough"}
    /\ sf_message' = IF sf_pc # "raised" THEN "set"
                     ELSE Diagnose(ErrorText(sf_error))
    /\ sf_pc' = "done"
    /\ UNCHANGED <<sf_flow_rate, sf_max_retries, sf_attempt, sf_response,
                   sf_result, sf_writes, sf_failed, sf_sleeps, sf_error,
                   sf_causes>>
    /\ UNCHANGED <<cfgVars, btnVars, safeVars, tempVars, mfcVars, localVars,
                   ghostVars, runVars, pc, flowVars, rampVars,
                   frameVars, configVars, cacheVars,
                   auxVars>>

SetFlowNext ==
    SetFlowCall \/ SetFlowWrite \/ SetFlowRead \/ SetMfcFlowReport

SetFlowSpec == Init /\ [][SetFlowNext]_vars

\* ---------------------------------------------------------------------
\* Alicat status line (instruments.py, MFCStatus.parse_raw_response)
\* ---------------------------------------------------------------------
\* bytes.split(): the maximal runs of bytes that are not whitespace
RECURSIVE SplitFrom(_, _, _)
SplitFrom(s, i, cur) ==
    IF i > Len(s) THEN (IF cur = << >> THEN << >> ELSE <<cur>>)
    ELSE IF s[i] \in Whitespace
    THEN (IF cur = << >> THEN << >> ELSE <<cur>>) \o SplitFrom(s, i + 1, << >>)
    ELSE SplitFrom(s, i + 1, Append(cur, s[i]))

SplitWhitespace(s) == SplitFrom(s, 1, << >>)

\* b'MOV' in elem
Contains(elem, sub) ==
    \E i \in 1 .. Len(elem) - Len(sub) + 1 :
        SubSeq(elem, i, i + Len(sub) - 1) = sub

\* Faulty variant of DropMov: every column is kept
DropNothing(columns) == columns

\* line 25: [elem for elem in columns if b'MOV' not in elem]
DropMov(columns) ==
    LET Keep(elem) == ~Contains(elem, MovText)
    IN  SelectSeq(columns, Keep)

\* float(column) of a column of decimal digits; any other column of
\* LineTokens makes float() raise ValueError
IsNumber(column) ==
    /\ column # << >>
    /\ \A i \in 1 .. Len(column) : column[i] \in 48 .. 57

RECURSIVE Decimal(_)
Decimal(column) ==
    IF column = << >> THEN 0
    ELSE 10 * Decimal(SubSeq(column, 1, Len(column) - 1))
         + (column[Len(column)] - 48)

\* lines 24-46: the MFCStatus, or the ValueError of line 31, or the
\* ValueError of float() in lines 40-44
ParseRawResponse(response) ==
    LET columns == DropMov(SplitWhitespace(Strip(response)))
    IN  IF Len(columns) # StatusColumns
        THEN [tag |-> "Invalid response format", setpoint |-> 0,
              mass_flow |-> 0]
        ELSE IF \E i \in 2 .. 6 : ~IsNumber(columns[i])
        THEN [tag |-> "could not convert", setpoint |-> 0, mass_flow |-> 0]
        ELSE [tag |-> "MFCStatus", setpoint |-> Decimal(columns[6]),
              mass_flow |-> Decimal(columns[5])]

\* the line the device sends: its tokens separated by one or two blanks
\* and ended by "\r\n"
RECURSIVE LineOf(_, _)
LineOf(tokens, i) ==
    IF i > Len(tokens) THEN <<13, 10>>
    ELSE tokens[i]
         \o (IF i = Len(tokens) THEN << >>
             ELSE IF i % 2 = 1 THEN <<32>> ELSE <<32, 32>>)
         \o LineOf(tokens, i + 1)

\* one call of parse_raw_response on a line of at most MaxTokens tokens
ParseCall ==
    /\ pr_pc = "idle"
    /\ \E n \in 0 .. MaxTokens : \E tokens \in [1 .. n -> LineTokens] :
          /\ pr_tokens' = tokens
          /\ pr_response' = LineOf(tokens, 1)
          /\ pr_result' = ParseRawResponse(LineOf(tokens, 1))
    /\ pr_pc' = "done"
    /\ UNCHANGED <<cfgVars, btnVars, safeVars, tempVars, mfcVars, localVars,
                   ghostVars, runVars, pc, flowVars, rampVars, alicatVars,
                   frameVars, configVars, cacheVars, livingVars,
                   workerVars>>

ParseSpec == Init /\ [][ParseCall]_vars

\* ---------------------------------------------------------------------
\* The log reader (new_log_monitor.py, LivingLog)
\* ---------------------------------------------------------------------
\* rest_of_file.split('\n'): the pieces between the newlines, the piece
\* after the last newline included
RECURSIVE SplitLinesFrom(_, _, _)
SplitLinesFrom(text, i, cur) ==
    IF i > Len(text) THEN <<cur>>
    ELSE IF text[i] = Newline
    THEN <<cur>> \o SplitLinesFrom(text, i + 1, << >>)
    ELSE SplitLinesFrom(text, i + 1, Append(cur, text[i]))

SplitLines(text) == SplitLinesFrom(text, 1, << >>)

\* Faulty variant of EndsWithNewline: the test of line 31 is left out
EndsWithNewlineAlways(text) == TRUE

\* line 31: rest_of_file[-1] != '\n' is false
EndsWithNewline(text) == ~(text[Len(text)] # Newline)

\* the writer appends a chunk, which need not end a line
LogAppend ==
    /\ \E n \in 1 .. MaxChunk : \E chunk \in [1 .. n -> LogChars] :
          /\ Len(ll_file) + n <= MaxFile
          /\ ll_file' = ll_file \o chunk
    /\ UNCHANGED <<ll_pc, ll_cursor, ll_size, ll_returned>>
    /\ UNCHANGED <<cfgVars, btnVars, safeVars, tempVars, mfcVars, localVars,
                   ghostVars, runVars, pc, flowVars, rampVars, alicatVars,
                   frameVars, configVars, cacheVars, parseVars,
                   workerVars>>

\* lines 22-26: os.stat; an unchanged size returns []
NewEntriesStat ==
    /\ ll_pc = "idle"
    /\ Len(ll_file) >= ll_cursor
    /\ IF Len(ll_file) = ll_cursor
       THEN UNCHANGED <<ll_pc, ll_size>>
       ELSE ll_pc' = "open" /\ ll_size' = Len(ll_file)
    /\ UNCHANGED <<ll_file, ll_cursor, ll_returned>>
    /\ UNCHANGED <<cfgVars, btnVars, safeVars, tempVars, mfcVars, localVars,
                   ghostVars, runVars, pc, flowVars, rampVars, alicatVars,
                   frameVars, configVars, cacheVars, parseVars,
                   workerVars>>

\* lines 28-35: seek, read to the end of the file as it is now, and
\* return its lines if it ends with a newline
NewEntriesRead ==
    /\ ll_pc = "open"
    /\ LET rest_of_file == SubSeq(ll_file, ll_cursor + 1, Len(ll_file))
       IN  IF ~EndsWithNewline(rest_of_file)
           THEN UNCHANGED <<ll_cursor, ll_returned>>
           ELSE LET pieces == SplitLines(rest_of_file)
                    lines  == SubSeq(pieces, 1, Len(pieces) - 1)
                IN  /\ ll_cursor' = Len(ll_file)
                    /\ ll_returned' = ll_returned \o lines
    /\ ll_pc' = "idle"
    /\ ll_size' = NoTime
    /\ UNCHANGED ll_file
    /\ UNCHANGED <<cfgVars, btnVars, safeVars, tempVars, mfcVars, localVars,
                   ghostVars, runVars, pc, flowVars, rampVars, alicatVars,
                   frameVars, configVars, cacheVars, parseVars,
                   workerVars>>

LivingNext == LogAppend \/ NewEntriesStat \/ NewEntriesRead

LivingSpec == Init /\ [][LivingNext]_vars

\* ---------------------------------------------------------------------
\* Ramp-control threads (start_temp_control, stop_temp_control and
\* run_temp_control_loop, each thread on its own)
\* ---------------------------------------------------------------------
\* the threads that are in run_temp_control_loop's while loop
LiveWorkers == {k \in 1 .. Len(wk_pc) : wk_pc[k] \in {"loop", "iterate"}}

\* start_temp_control with start_temp_control_thread: the flag is set and
\* a new thread is created and started; it takes its ramp_start_time (line
\* 1356) while the operator reads the dialog of line 1281
StartWorker ==
    /\ wk_start_btn
    /\ Len(wk_pc) < MaxThreads
    /\ wk_running' = TRUE
    /\ wk_pc' = Append(wk_pc, "loop")
    /\ wk_start_time' = Append(wk_start_time, wk_clock)
    /\ wk_start_btn' = FALSE
    /\ UNCHANGED <<wk_clock, wk_writer>>
    /\ UNCHANGED <<cfgVars, btnVars, safeVars, tempVars, mfcVars, localVars,
                   ghostVars, runVars, pc, flowVars, rampVars, alicatVars,
                   frameVars, configVars, cacheVars, parseVars, livingVars>>

\* stop_temp_control: the flag is cleared and the buttons are switched
StopWorker ==
    /\ ~wk_start_btn
    /\ wk_running' = FALSE
    /\ wk_start_btn' = TRUE
    /\ UNCHANGED <<wk_pc, wk_clock, wk_start_time, wk_writer>>
    /\ UNCHANGED <<cfgVars, btnVars, safeVars, tempVars, mfcVars, localVars,
                   ghostVars, runVars, pc, flowVars, rampVars, alicatVars,
                   frameVars, configVars, cacheVars, parseVars, livingVars>>

\* line 1360: while self.temp_control_running
WorkerLoopTest(k) ==
    /\ wk_pc[k] = "loop"
    /\ wk_pc' = [wk_pc EXCEPT ![k] = IF wk_running THEN "iterate"
                                     ELSE "ended"]
    /\ UNCHANGED <<wk_running, wk_start_btn, wk_clock, wk_start_time,
                   wk_writer>>
    /\ UNCHANGED <<cfgVars, btnVars, safeVars, tempVars, mfcVars, localVars,
                   ghostVars, runVars, pc, flowVars, rampVars, alicatVars,
                   frameVars, configVars, cacheVars, parseVars, livingVars>>

\* lines 1396-1450: the setpoint for the time since the thread's own
\* ramp_start_time is written, then time.sleep(1)
WorkerIterate(k) ==
    /\ wk_pc[k] = "iterate"
    /\ wk_writer' = k
    /\ wk_pc' = [wk_pc EXCEPT ![k] = "loop"]
    /\ UNCHANGED <<wk_running, wk_start_btn, wk_clock, wk_start_time>>
    /\ UNCHANGED <<cfgVars, btnVars, safeVars, tempVars, mfcVars, localVars,
                   ghostVars, runVars, pc, flowVars, rampVars, alicatVars,
                   frameVars, configVars, cacheVars, parseVars, livingVars>>

WorkerTick ==
    /\ wk_clock < MaxWorkerClock
    /\ wk_clock' = wk_clock + 1
    /\ UNCHANGED <<wk_running, wk_start_btn, wk_pc, wk_start_time,
                   wk_writer>>
    /\ UNCHANGED <<cfgVars, btnVars, safeVars, tempVars, mfcVars, localVars,
                   ghostVars, runVars, pc, flowVars, rampVars, alicatVars,
                   frameVars, configVars, cacheVars, parseVars, livingVars>>

WorkerNext ==
    \/ StartWorker
    \/ StopWorker
    \/ WorkerTick
    \/ \E k \in 1 .. Len(wk_pc) : WorkerLoopTest(k)
    \/ \E k \in 1 .. Len(wk_pc) : WorkerIterate(k)

WorkerSpec == Init /\ [][WorkerNext]_vars

\* ---------------------------------------------------------------------
\* Ramp model (temp_ramp.py)
\* ---------------------------------------------------------------------
\* zip(temps, hold_times, ramp_rates, temps[1:]) stops at the shortest
Legs(r) ==
    LET L == {Len(r.temps) - 1, Len(r.hold_times), Len(r.ramp_rates)}
    IN  CHOOSE n \in L : \A m \in L : n <= m

\* TempRamp.ramp_points from leg i on, curr_time being clock
RECURSIVE RampPointsFrom(_, _, _)
RampPointsFrom(r, i, clock) ==
    IF i > Legs(r)
    THEN << [time |-> clock, temp |-> r.temps[Len(r.temps)]] >>
    ELSE LET held   == IF r.hold_times[i] > 0
                       THEN clock + r.hold_times[i] ELSE clock
             ramped == IF r.ramp_rates[i] > 0
                       THEN held + (Abs(r.temps[i + 1] - r.temps[i])
                                      * TicksPerMinute) \div r.ramp_rates[i]
                       ELSE held
         IN  << [time |-> clock, temp |-> r.temps[i]] >>
             \o (IF r.hold_times[i] > 0
                 THEN << [time |-> held, temp |-> r.temps[i]] >> ELSE << >>)
             \o RampPointsFrom(r, i + 1, ramped)

RampPoints(r) == RampPointsFrom(r, 1, 0)

\* list(np.arange(start, stop, step)) with stop appended, for start < stop
Ascending(start, stop, step) ==
    LET n == (stop - start + step - 1) \div step
    IN  [i \in 1 .. n + 1 |-> IF i <= n THEN start + (i - 1) * step ELSE stop]

\* Faulty variant of FlexArange: the step is twice MAX_ERROR_DURING_RAMP
FlexArangeCoarse(start, stop) ==
    IF start > stop
    THEN Reverse(Ascending(stop, start, 2 * MaxErrorDuringRamp))
    ELSE Ascending(start, stop, 2 * MaxErrorDuringRamp)

\* flex_arange(start, stop, step=MAX_ERROR_DURING_RAMP), start # stop
FlexArange(start, stop) ==
    IF start > stop
    THEN Reverse(Ascending(stop, start, MaxErrorDuringRamp))
    ELSE Ascending(start, stop, MaxErrorDuringRamp)

\* np.interp(x, [x0, x1], [y0, y1]) for x0 <= x <= x1, x0 < x1
Interp(x, x0, x1, y0, y1) == y0 + ((x - x0) * (y1 - y0)) \div (x1 - x0)

\* Faulty variant of RampTimes: the "[::-1]" of a descending ramp is
\* forgotten
RampTimesNoReverse(ts, p0, p1) ==
    IF p0.temp < p1.temp
    THEN [i \in 1 .. Len(ts) |->
             Interp(ts[i], p0.temp, p1.temp, p0.time, p1.time)]
    ELSE [i \in 1 .. Len(ts) |->
             Interp(ts[i], p1.temp, p0.temp, p0.time, p1.time)]

\* control_points, lines 86-91: ramp_times of the ramp from p0 to p1
RampTimes(ts, p0, p1) ==
    IF p0.temp < p1.temp
    THEN [i \in 1 .. Len(ts) |->
             Interp(ts[i], p0.temp, p1.temp, p0.time, p1.time)]
    ELSE Reverse([i \in 1 .. Len(ts) |->
             Interp(ts[i], p1.temp, p0.temp, p0.time, p1.time)])

\* control_points, lines 77-94: what one pair of ramp points contributes
Segment(p0, p1) ==
    IF p0.time = p1.time
    THEN [times |-> << p1.time >>, temps |-> << p1.temp >>]
    ELSE IF p0.temp = p1.temp
    THEN [times |-> << >>, temps |-> << >>]
    ELSE [times |-> RampTimes(FlexArange(p0.temp, p1.temp), p0, p1),
          temps |-> FlexArange(p0.temp, p1.temp)]

RECURSIVE ControlPointsFrom(_, _)
ControlPointsFrom(pts, j) ==
    IF j >= Len(pts) THEN [times |-> << >>, temps |-> << >>]
    ELSE LET s    == Segment(pts[j], pts[j + 1])
             rest == ControlPointsFrom(pts, j + 1)
         IN  [times |-> s.times \o rest.times, temps |-> s.temps \o rest.temps]

\* TempRamp.control_points
ControlPoints(r) == ControlPointsFrom(RampPoints(r), 1)

\* run_temp_control_loop, lines 1356-1358
ComputeControlPoints ==
    /\ temp_ramp # NoRamp
    /\ ramp_control_times = << >>
    /\ ramp_control_times' = ControlPoints(temp_ramp).times
    /\ ramp_control_temps' = ControlPoints(temp_ramp).temps
    /\ UNCHANGED <<cfgVars, btnVars, safeVars, tempVars, mfcVars, localVars,
                   ghostVars, runVars, pc, flowVars, temp_ramp, elapsed,
                   alicatVars, frameVars, configVars, cacheVars,
                   auxVars>>

\* ---------------------------------------------------------------------
\* Ramp configuration (upload_temp_ramp, start_temp_control,
\* start_temp_control_thread)
\* ---------------------------------------------------------------------
RampFiles ==
    { [keys         |-> k,
       temperatures |-> IF "temperatures" \in k
                        THEN SubSeq(FileTemps, 1, a) ELSE << >>,
       hold_times   |-> IF "hold_times" \in k
                        THEN SubSeq(FileHolds, 1, b) ELSE << >>,
       ramp_rates   |-> IF "ramp_rates" \in k
                        THEN SubSeq(FileRates, 1, c) ELSE << >>] :
        k \in SUBSET FileKeys, a \in 0 .. Len(FileTemps),
        b \in 0 .. Len(FileHolds), c \in 0 .. Len(FileRates) }

\* upload_temp_ramp, line 1200, and the subscripts of lines 1310-1316
HasRampKeys(config) == RampKeys \subseteq config.keys

\* start_temp_control_thread, lines 1310-1320: the TempRamp made of the
\* configuration, hold times converted from hours
ToTempRamp(config) ==
    [temps      |-> config.temperatures,
     hold_times |-> [i \in 1 .. Len(config.hold_times) |->
                       config.hold_times[i] * 60 * TicksPerMinute],
     ramp_rates |-> config.ramp_rates]

\* upload_temp_ramp: the file is stored, then its keys are looked at
UploadRampFile ==
    /\ \E file \in RampFiles :
          /\ rc_config' = file
          /\ rc_report' = IF HasRampKeys(file) THEN "loaded" ELSE "invalid"
    /\ UNCHANGED <<rc_worker, rc_started, rc_commands>>
    /\ UNCHANGED <<cfgVars, btnVars, safeVars, tempVars, mfcVars, localVars,
                   ghostVars, runVars, pc, flowVars, rampVars, alicatVars,
                   frameVars, cacheVars,
                   auxVars>>

\* start_temp_control and start_temp_control_thread with a temperature
\* controller connected: an empty configuration is refused (line 1222), a
\* missing key or an empty temperature list raises before the thread is
\* made (lines 1310-1320), anything else starts the worker
StartRampControl ==
    /\ ~rc_worker
    /\ IF rc_config.keys = {}
       THEN /\ rc_report' = "upload first"
            /\ UNCHANGED <<rc_worker, rc_started>>
       ELSE IF ~HasRampKeys(rc_config) \/ rc_config.temperatures = << >>
       THEN /\ rc_report' = "failed to start"
            /\ UNCHANGED <<rc_worker, rc_started>>
       ELSE /\ rc_report' = "started"
            /\ rc_worker' = TRUE
            /\ rc_started' = rc_config
    /\ UNCHANGED <<rc_config, rc_commands>>
    /\ UNCHANGED <<cfgVars, btnVars, safeVars, tempVars, mfcVars, localVars,
                   ghostVars, runVars, pc, flowVars, rampVars, alicatVars,
                   frameVars, cacheVars,
                   auxVars>>

\* run_temp_control_loop: an iteration whose scheduler finds a setpoint
\* reads the controller (line 1402); np.argmax of no control points raises
RampWorkerExchange ==
    /\ rc_worker
    /\ rc_commands < MaxCommands
    /\ ControlPoints(ToTempRamp(rc_started)).times # << >>
    /\ rc_commands' = rc_commands + 1
    /\ UNCHANGED <<rc_config, rc_report, rc_worker, rc_started>>
    /\ UNCHANGED <<cfgVars, btnVars, safeVars, tempVars, mfcVars, localVars,
                   ghostVars, runVars, pc, flowVars, rampVars, alicatVars,
                   frameVars, cacheVars,
                   auxVars>>

\* stop_temp_control
StopRampControl ==
    /\ rc_worker
    /\ rc_worker' = FALSE
    /\ rc_started' = NoFile
    /\ rc_commands' = 0
    /\ rc_report' = "stopped"
    /\ UNCHANGED rc_config
    /\ UNCHANGED <<cfgVars, btnVars, safeVars, tempVars, mfcVars, localVars,
                   ghostVars, runVars, pc, flowVars, rampVars, alicatVars,
                   frameVars, cacheVars,
                   auxVars>>

ConfigNext ==
    UploadRampFile \/ StartRampControl \/ RampWorkerExchange
    \/ StopRampControl

ConfigSpec == Init /\ [][ConfigNext]_vars

\* ---------------------------------------------------------------------
\* Setpoint scheduler (run_temp_control_loop, lines 1396-1399)
\* Times are in ticks of 1/TicksPerMinute minute, temperatures in units of
\* 0.05 degree.
\* ---------------------------------------------------------------------
\* Python's seq[k] for k >= -Len(seq): a negative index counts from the end
PyIndex(seq, k) == IF k >= 0 THEN seq[k + 1] ELSE seq[Len(seq) + k + 1]

\* np.argmax(times > e): the 0-based index of the first True, 0 if none
ArgmaxLater(times, e) ==
    LET later == {i \in 1 .. Len(times) : times[i] > e}
    IN  IF later = {} THEN 0
        ELSE (CHOOSE i \in later : \A j \in later : i <= j) - 1

\* Faulty variant of CurrentSetpoint: the "- 1" is forgotten
CurrentSetpointNoOffset(times, temps, e) ==
    PyIndex(temps, ArgmaxLater(times, e))

\* Faulty variant of CurrentSetpoint: no point later than e selects the
\* first point instead of wrapping to the last
CurrentSetpointNoWrap(times, temps, e) ==
    IF ArgmaxLater(times, e) = 0 THEN temps[1]
    ELSE PyIndex(temps, ArgmaxLater(times, e) - 1)

\* lines 1396-1399: desired_set_point
CurrentSetpoint(times, temps, e) ==
    PyIndex(temps, ArgmaxLater(times, e) - 1)

\* One evaluation of the scheduler by the ramp worker, the clock having
\* advanced to e
SchedulerTick ==
    /\ ramp_control_times # <<>>
    /\ \E e \in ElapsedValues :
          /\ e > elapsed
          /\ elapsed' = e
          /\ desired' = CurrentSetpoint(ramp_control_times,
                                        ramp_control_temps, e)
    /\ UNCHANGED <<cfgVars, btnVars, safeVars, tempVars, mfcVars, rd,
                   current_setpoint, fidx,
                   pk, ghostVars, runVars, pc, flowVars, temp_ramp,
                   ramp_control_times, ramp_control_temps, alicatVars,
                   frameVars, configVars, cacheVars,
                   auxVars>>

\* The scheduler on any non-decreasing control-point sequence
NonDecreasing(s) == \A i \in 1 .. Len(s) - 1 : s[i] <= s[i + 1]

SchedulerInit ==
    /\ InitControl
    /\ InitAlicat
    /\ InitPropar
    /\ InitCodec
    /\ InitConfig
    /\ InitCache
    /\ InitAux
    /\ temp_ramp = NoRamp
    /\ elapsed = NoTime
    /\ \E n \in 1 .. MaxPoints :
          /\ ramp_control_times \in [1 .. n -> 0 .. MaxPointTime]
          /\ NonDecreasing(ramp_control_times)
          /\ ramp_control_temps \in [1 .. n -> PointTemps]

SchedulerSpec == SchedulerInit /\ [][SchedulerTick]_vars

\* The ramp worker's schedule for any ramp specification of RampSpecs
RampInit ==
    /\ InitControl
    /\ InitAlicat
    /\ InitPropar
    /\ InitCodec
    /\ InitConfig
    /\ InitCache
    /\ InitAux
    /\ temp_ramp \in RampSpecs
    /\ ramp_control_times = << >>
    /\ ramp_control_temps = << >>
    /\ elapsed = NoTime

RampNext == ComputeControlPoints \/ SchedulerTick

RampSpec == RampInit /\ [][RampNext]_vars

\* ---------------------------------------------------------------------
\* The program
\* ---------------------------------------------------------------------
Monitor == MonitorAcquire \/ MonitorRead

Ramp ==
    \/ RampHead
    \/ RampAcquire
    \/ RampReadSetpoint
    \/ RampWriteSetpoint
    \/ RampReadStatus
    \/ RampLogWrite
    \/ RampSafetyRead
    \/ RampSafetyWrite
    \/ RampSafetyStop
    \/ RampFinally

Poll == PollRequest \/ PollReply

Gui ==
    \/ ConnectSerial
    \/ ConnectTempControl
    \/ UploadTempRamp
    \/ SetMfcFlowRequest
    \/ SetMfcFlowReply
    \/ ToggleMaintenanceFlag
    \/ ToggleMaintenanceClear
    \/ StartTempControl
    \/ StartTempControlCancel
    \/ StartTempControlThread
    \/ StopTempControl
    \/ EmergencyStop

\* The safety supervisor with both of its callers and every operator
\* action that reads or writes the supervisor's state, before the Bronkhorst
\* link is connected (no flow exchange takes place: "if n in
\* self.mfc_controllers" is false).  The users of that link are in LinkSpec.
Next ==
    \/ Monitor
    \/ Ramp
    \/ ConnectTempControl
    \/ UploadTempRamp
    \/ ToggleMaintenanceFlag
    \/ ToggleMaintenanceClear
    \/ StartTempControl
    \/ StartTempControlCancel
    \/ StartTempControlThread
    \/ StopTempControl
    \/ EmergencyStopSet
    \/ EmergencyStopFlowRequest
    \/ EmergencyStopAcquire
    \/ EmergencyStopRead
    \/ EmergencyStopWriteSafe
    \/ \E t \in Workers : CheckSafetyConditions(t)
    \/ \E t \in Workers : TriggerSet(t)
    \/ \E t \in Workers : TriggerFlowRequest(t)
    \/ \E t \in Workers : TriggerAcquire(t)
    \/ \E t \in Workers : TriggerRead(t)
    \/ \E t \in Workers : TriggerWriteSafe(t)
    \/ \E t \in Workers : TriggerNotify(t)

Spec == Init /\ [][Next]_vars

\* Every user of the Bronkhorst serial link: the polling thread, the
\* operator's set-flow, emergency stop, and the safety shutdown raised by
\* the monitoring thread.
LinkNext ==
    \/ Poll
    \/ Monitor
    \/ ConnectSerial
    \/ ConnectTempControl
    \/ SetMfcFlowRequest
    \/ SetMfcFlowReply
    \/ ToggleMaintenanceFlag
    \/ ToggleMaintenanceClear
    \/ EmergencyStop
    \/ CheckSafetyConditions("mon")
    \/ TriggerSafetyShutdown("mon")

LinkSpec == Init /\ [][LinkNext]_vars

\* Every user of the temperature controllers' serial link that can run
\* beside the monitoring thread: the connection test of connect_temp_control,
\* emergency stop, and the safety shutdown raised by the monitoring thread.
TempLinkNext ==
    \/ Monitor
    \/ ConnectTempControl
    \/ ConnectTempControlTestRequest
    \/ ConnectTempControlTestReply
    \/ ConnectTempControlRetestRequest
    \/ ConnectTempControlRetestReply
    \/ ToggleMaintenanceFlag
    \/ ToggleMaintenanceClear
    \/ EmergencyStopSet
    \/ EmergencyStopFlowRequest
    \/ EmergencyStopAcquire
    \/ EmergencyStopRead
    \/ EmergencyStopWriteSafe
    \/ CheckSafetyConditions("mon")
    \/ TriggerSet("mon")
    \/ TriggerFlowRequest("mon")
    \/ TriggerAcquire("mon")
    \/ TriggerRead("mon")
    \/ TriggerWriteSafe("mon")
    \/ TriggerNotify("mon")

TempLinkSpec == Init /\ [][TempLinkNext]_vars

\* The flow monitor: check_flow_conditions at each poll, with the operator
\* switching maintenance mode.
FlowNext ==
    \/ ConnectSerial
    \/ CheckFlowConditions
    \/ ToggleMaintenanceFlag
    \/ ToggleMaintenanceClear

FlowSpec == Init /\ [][FlowNext]_vars

\* =====================================================================
\* Properties
\* =====================================================================

C2_AtMostOneShutdown == shutdown_runs <= 1

\* C3 (LinkSpec): a call of check_safety_conditions while safety_triggered
\* is set returns with no flow write, no temperature write, no new shutdown
\* run, and the supervisor still Triggered, whatever the readings.
C3_IdempotentWhenTriggered ==
    [][\A t \in Workers :
          (pc[t] = "check" /\ pc'[t] # "check" /\ safety_triggered)
          => /\ pc'[t] = "loop"
             /\ safety_triggered'
             /\ UNCHANGED <<maintenance_mode, dev_setpoint, mfcVars,
                            ghostVars>>]_vars

\* C3 witness: with maintenance mode off and the trigger set, the monitoring
\* worker is in check_safety_conditions with an internal reading of 750
C3_Witness ==
    /\ pc["mon"] = "check"
    /\ rd["mon"][1] >= 750
    /\ safety_triggered
    /\ ~maintenance_mode
    /\ pc["gui"] = "idle"

\* C4 (Spec): the ramp worker issues no scheduler-derived setpoint write
\* while safety_triggered is set, and none after a 20 degree safety write
\* of the same episode.
C4_NoRampWriteAfterTrigger ==
    [][(pc["ramp"] = "r_put_b" /\ pc'["ramp"] = "r_log")
          => ~safety_triggered /\ ~safe_written]_vars

\* C5 (Spec): safety_triggered goes from set to clear only in an explicit
\* reset: line 1888 of toggle_maintenance_mode or line 1234 of
\* start_temp_control.
C5_ClearedOnlyByReset ==
    [][(safety_triggered /\ ~safety_triggered')
          => \/ pc["gui"] = "tm_clear" /\ pc'["gui"] = "idle"
             \/ pc["gui"] = "idle" /\ pc'["gui"] = "stc_name"]_vars

\* C5 witness: start_temp_control has reset the trigger while the worker
\* that raised it is still in its shutdown sequence
C5_Witness ==
    /\ ~safety_triggered
    /\ pc["gui"] = "stc_name"
    /\ \E t \in Workers : pc[t] = "ts_mail"

\* C6 (LinkSpec): in maintenance mode a call of check_safety_conditions
\* returns with the supervisor state, both devices and the shutdown count
\* untouched, whatever the readings and whether or not the trigger is set.
C6_MaintenanceSuppresses ==
    [][\A t \in Workers :
          (pc[t] = "check" /\ pc'[t] # "check" /\ maintenance_mode)
          => /\ pc'[t] = "loop"
             /\ UNCHANGED <<safeVars, dev_setpoint, mfcVars, ghostVars>>]_vars

\* C6 witness: in maintenance mode, with no trigger set, the monitoring
\* worker is in check_safety_conditions with an internal reading of 750
C6_Witness ==
    /\ pc["mon"] = "check"
    /\ rd["mon"][1] >= 750
    /\ maintenance_mode
    /\ ~safety_triggered
    /\ shutdown_runs = 0

\* C7 (Spec): when the handler that switches maintenance mode off ends,
\* maintenance_mode and safety_triggered are both clear; the step that
\* switches maintenance mode on leaves safety_triggered as it was.
C7_MaintenanceOffResets ==
    [][/\ (pc["gui"] = "tm_clear" /\ pc'["gui"] = "idle")
          => ~safety_triggered' /\ ~maintenance_mode'
       /\ (~maintenance_mode /\ maintenance_mode')
          => safety_triggered' = safety_triggered]_vars

\* C7 witness: maintenance mode has been switched off and the handler is
\* about to clear a trigger that is set
C7_Witness ==
    /\ pc["gui"] = "tm_clear"
    /\ ~maintenance_mode
    /\ safety_triggered

\* C8 (LinkSpec): every flow write of a safety trigger commands N2 to a
\* nonzero flow and CO2 and H2 to zero, and its temperature write sets 20.
C8_SafeProfile ==
    [][\A t \in Workers :
          /\ (pc[t] = "ts_flow" /\ pc'[t] = "ts_flow_r")
             => LET n == ShutdownFlows[fidx[t]].node IN
                IF n = N2 THEN mfc_setpoint'[n] > 0
                ELSE mfc_setpoint'[n] = 0
          /\ (pc[t] = "ts_put_b" /\ pc'[t] = "ts_get2")
             => dev_setpoint' \in {20, dev_setpoint}]_vars

\* C9 (Spec): a safety trigger leaves the temperature control loop
\* running: the ramp worker never clears temp_control_running itself, only
\* the operator's stop does.
C9_LoopLeftRunning ==
    [][(temp_control_running /\ ~temp_control_running')
          => pc'["ramp"] = pc["ramp"]]_vars

\* C10 (LinkSpec): at most one request/response exchange is in flight on
\* the Bronkhorst serial link.
C10_OneExchangeInFlight == Cardinality(mfc_inflight) <= 1

\* C11 (TempLinkSpec): at most one request/response exchange is in flight
\* on the temperature controllers' serial link.
C11_OneTempExchangeInFlight == Cardinality(temp_inflight) <= 1

\* C12 (FlowSpec): for each channel, an unbroken run of low-flow polls
\* sends at most one notification; after a poll that saw flow >= 0.9 x
\* setpoint the alert is cleared; and a run that has lasted more than 60 s
\* has sent exactly one notification.
C12_OneNotificationPerEpisode ==
    \A n \in Nodes :
       /\ episode_sent[n] <= 1
       /\ (last_ok[n] /\ ~maintenance_mode /\ pc["gui"] = "idle")
             => flow_alert_start_times[n] = NoTime /\ ~flow_alerts[n]
       /\ (low_since[n] # NoTime /\ now - low_since[n] > 60)
             => episode_sent[n] = 1

\* C13 (FlowSpec): a notification for a channel is sent only by a poll that
\* ends an unbroken run of low-flow polls of that channel longer than 60 s.
C13_NotifiedOnlyAfterContinuousLow ==
    \A n \in Nodes :
       notified_now[n] => low_since[n] # NoTime /\ now - low_since[n] > 60

\* C14 (SchedulerSpec): on a non-decreasing control-point sequence, when
\* some point has time <= elapsed, the scheduler selects the temperature of
\* the latest point whose time is <= elapsed.
C14_LatestPointNotAfterElapsed ==
    LET due == {i \in 1 .. Len(ramp_control_times) :
                   ramp_control_times[i] <= elapsed}
    IN  (elapsed # NoTime /\ NonDecreasing(ramp_control_times) /\ due # {})
        => \E i \in due :
              /\ \A j \in due : j <= i
              /\ desired = ramp_control_temps[i]

\* C14 witness: three points, two of them at the same time, the scheduler
\* evaluated between the second and the third
C14_Witness ==
    /\ ramp_control_times = <<1, 1, 3>>
    /\ ramp_control_temps = <<500, 600, 700>>
    /\ elapsed = 2
    /\ desired = 600

\* C15 (RampSpec): for every ramp specification, the setpoint selected at
\* elapsed = 0 from control_points() is temperatures[0].
C15_FirstTemperatureAtZero ==
    (ramp_control_times # << >> /\ elapsed = 0)
    => desired = temp_ramp.temps[1]

\* C16 (RampSpec): for every ramp specification, at every evaluation with
\* elapsed greater than all control-point times the selected setpoint is
\* the final control point's temperature, and that is temperatures[N-1].
C16_FinalTemperatureAfterProgram ==
    (/\ elapsed # NoTime
     /\ \A i \in 1 .. Len(ramp_control_times) :
            ramp_control_times[i] < elapsed)
    => /\ desired = ramp_control_temps[Len(ramp_control_temps)]
       /\ desired = temp_ramp.temps[Len(temp_ramp.temps)]

\* C16 witness: a three-temperature program with holds and ramps that ends
\* at tick 17, evaluated at tick 30
C16_Witness ==
    /\ temp_ramp = [temps |-> <<500, 503, 504>>, hold_times |-> <<5, 5>>,
                    ramp_rates |-> <<85, 170>>]
    /\ ramp_control_times # << >>
    /\ ramp_control_times[Len(ramp_control_times)] = 17
    /\ elapsed = 30
    /\ desired = 504

\* C17 (RampSpec), as amended: for temperatures 25, 450, 25, hold times
\* 0, 240 min and ramp rates 8.5, 0, the selected setpoint is 25 degrees at
\* elapsed 0, 450 at 50 min, and 25 at 300 min (the hold ends at 290 min).
C17_ExampleSchedule ==
    (temp_ramp = ExampleRamp /\ ramp_control_times # << >>)
    => /\ elapsed = 0 => desired = 500
       /\ elapsed = 8500 => desired = 9000
       /\ elapsed = 51000 => desired = 500

\* C17 as stated: the same with 450 degrees selected at 300 min.
C17_ExampleAsStated ==
    (temp_ramp = ExampleRamp /\ ramp_control_times # << >>)
    => /\ elapsed = 0 => desired = 500
       /\ elapsed = 8500 => desired = 9000
       /\ elapsed = 51000 => desired = 9000

\* C17 witness: the example program evaluated at 300 min
C17_Witness ==
    /\ temp_ramp = ExampleRamp
    /\ Len(ramp_control_times) = 4252
    /\ elapsed = 51000
    /\ desired = 500

\* C18 (RampSpec): the times returned by control_points() are
\* non-decreasing in sequence order.
C18_ControlTimesNonDecreasing ==
    \A i \in 1 .. Len(ramp_control_times) - 1 :
       ramp_control_times[i] <= ramp_control_times[i + 1]

\* C18 witness: control points of a program with a hold, a descending ramp
\* and an instantaneous step
C18_Witness ==
    /\ temp_ramp = [temps |-> <<504, 500, 503>>, hold_times |-> <<5, 0>>,
                    ramp_rates |-> <<85, 0>>]
    /\ ramp_control_temps = <<504, 502, 500, 503>>
    /\ ramp_control_times = <<5, 9, 13, 13>>

\* C19 (RampSpec): within every ramp segment (two ramp points at different
\* times with different temperatures) the control points produced are at
\* most 0.1 degree (2 units) apart in temperature.
C19_RampStepsWithinMaxError ==
    ramp_control_times # << >> =>
    LET pts == RampPoints(temp_ramp) IN
    \A j \in 1 .. Len(pts) - 1 :
       (pts[j].time # pts[j + 1].time /\ pts[j].temp # pts[j + 1].temp)
       => LET base == Len(ramp_control_temps)
                         - Len(ControlPointsFrom(pts, j).temps)
              n    == Len(Segment(pts[j], pts[j + 1]).temps)
          IN  /\ ramp_control_temps[base + 1] = pts[j].temp
              /\ ramp_control_temps[base + n] = pts[j + 1].temp
              /\ \A k \in 1 .. n - 1 :
                    Abs(ramp_control_temps[base + k + 1]
                          - ramp_control_temps[base + k]) <= 2

\* C19 witness: a descending ramp of 0.15 degree, whose first step is the
\* short one
C19_Witness ==
    /\ temp_ramp.temps = <<503, 500>>
    /\ temp_ramp.ramp_rates = <<85>>
    /\ ramp_control_temps = <<503, 502, 500>>

\* C20 (SetFlowSpec): when set_flow returns, its k-th attempt read a
\* well-formed status whose setpoint is less than 0.01 from the target, the
\* k - 1 attempts before it failed, exactly k write commands were sent
\* (k <= max_retries), the status returned is that of attempt k, and no
\* further command is sent by the call.
C20_ReturnsFirstVerifiedAttempt ==
    /\ [](sf_pc = "returned" =>
            /\ sf_response.kind = "status"
            /\ Abs(sf_response.setpoint - sf_flow_rate) < SetpointTolerance
            /\ sf_result = sf_response
            /\ sf_writes = sf_failed + 1
            /\ sf_writes = sf_attempt + 1
            /\ sf_writes <= sf_max_retries)
    /\ [][(sf_pc = "read" /\ sf_response'.kind = "status"
             /\ Abs(sf_response'.setpoint - sf_flow_rate) < SetpointTolerance)
            => sf_pc' = "returned"]_vars
    /\ [][(sf_pc = "returned" /\ sf_pc' = "returned")
            => sf_writes' = sf_writes]_vars

\* C20 witness: two attempts failed (one of them on a setpoint 0.01 off)
\* and the third, of three allowed, was verified and returned
C20_Witness ==
    /\ sf_pc = "returned"
    /\ sf_max_retries = 3
    /\ sf_failed = 2
    /\ sf_writes = 3
    /\ sf_flow_rate = 200
    /\ sf_result = [kind |-> "status", setpoint |-> 201, mass_flow |-> 7]

\* C21 (SetFlowSpec): a call of set_flow never makes more than max_retries
\* attempts; when it raises, every attempt has failed, exactly max_retries
\* write commands have been sent, and max_retries - 1 delays were taken
\* (none after the last attempt).  The claim is about calls that make an
\* attempt, max_retries >= 1.
C21_RaisesAfterMaxRetries ==
    sf_max_retries >= 1 =>
       /\ sf_writes <= sf_max_retries
       /\ sf_pc \in {"write", "read"} => sf_attempt < sf_max_retries
       /\ sf_pc # "fellthrough"
       /\ sf_pc = "raised" =>
             /\ sf_writes = sf_max_retries
             /\ sf_failed = sf_max_retries
             /\ sf_sleeps = sf_max_retries - 1
       /\ (sf_pc = "read" /\ sf_failed = sf_max_retries - 1) =>
             sf_sleeps = sf_max_retries - 1

\* C21 witness: three attempts of three failed and the call raised
C21_Witness ==
    /\ sf_pc = "raised"
    /\ sf_max_retries = 3
    /\ sf_writes = 3
    /\ sf_sleeps = 2

\* C22 (SetFlowSpec): the error raised on exhaustion names the cause of the
\* last attempt, and set_mfc_flow reports an empty response, a malformed
\* response and a setpoint mismatch each by its own message.
C22_LastCauseReported ==
    /\ sf_pc = "raised" =>
          /\ sf_error = Cause(sf_response)
          /\ sf_error = sf_causes[Len(sf_causes)]
    /\ (sf_pc = "done" /\ sf_error = "empty") => sf_message = "timeout"
    /\ (sf_pc = "done" /\ sf_error = "malformed") => sf_message = "format"
    /\ (sf_pc = "done" /\ sf_error = "mismatch") => sf_message = "verify"

\* C22 witness: the call failed on an empty response, then on a malformed
\* one, and last on a mismatch, which is what was reported
C22_Witness ==
    /\ sf_pc = "done"
    /\ sf_causes = <<"empty", "malformed", "mismatch">>
    /\ sf_error = "mismatch"
    /\ sf_message = "verify"

\* C23 (ProparSpec): set_flow_rate on a controller whose capacity is <= 0
\* returns False at once: nothing was written to the serial link and no
\* exchange was attempted.
C23_NoCapacityNoWrite ==
    (pp_op = "set_flow_rate" /\ pp_capacity <= 0) =>
        /\ pp_pc = "done"
        /\ pp_result = "False"
        /\ pp_writes = 0
        /\ pp_message = << >>
        /\ pp_response = << >>

\* C23 witness: a call with a negative capacity has returned
C23_Witness ==
    /\ pp_op = "set_flow_rate"
    /\ pp_capacity = -50
    /\ pp_pc = "done"
    /\ pp_result = "False"

C25_RejectedFramesFail ==
    (/\ pp_pc = "done"
     /\ pp_writes = 1
     /\ \/ pp_response = << >>
        \/ pp_response[1] # Colon
        \/ pp_reply.delta # 0) =>
        /\ ParseProparResponse(pp_response, pp_type).tag \in {"None", "raise"}
        /\ pp_op = "read_parameter" => pp_result = NoValue
        /\ pp_op = "set_flow_rate" => pp_result = "False"

\* C26 (CodecSpec): an int16 value or an ASCII string, encoded as the
\* value bytes of a write command and put into a data response with a
\* right length field, is decoded by parse_propar_response to itself.
C26_CodecRoundTrip ==
    cd_pc = "decoded" => cd_decoded = [tag |-> cd_type, value |-> cd_value]

\* C27 (ConfigSpec): the ramp-control worker is never started with, and no
\* command is sent to the controller under, a configuration that lacks one
\* of the three arrays or whose arrays do not satisfy
\* len(hold_times) = len(ramp_rates) = len(temperatures) - 1.
C27_MalformedRampRejected ==
    (rc_worker \/ rc_commands > 0) =>
        /\ HasRampKeys(rc_started)
        /\ Len(rc_started.hold_times) = Len(rc_started.ramp_rates)
        /\ Len(rc_started.ramp_rates) = Len(rc_started.temperatures) - 1

\* C28 (Spec): in an iteration of the ramp worker, the write of the
\* scheduler's setpoint is reached, and the write command sent, only after
\* a setpoint was read that differs from the desired one; when the two are
\* equal or no setpoint could be read, the iteration goes on to the status
\* read without a write.
C28_WriteOnlyWhenDifferent ==
    /\ [](pc["ramp"] \in {"r_put", "r_put_b"} =>
            /\ current_setpoint # NoSetpoint
            /\ desired # current_setpoint)
    /\ [][(pc["ramp"] = "r_get_b" /\ pc'["ramp"] = "r_put") =>
            /\ last_temp_readings' # NoReading
            /\ current_setpoint' = last_temp_readings'[3]]_vars
    /\ [][(pc["ramp"] = "r_get_b" /\ pc'["ramp"] \notin {"r_get_b", "r_put"}) =>
            /\ pc'["ramp"] = "r_log"
            /\ dev_setpoint' = dev_setpoint]_vars

\* C28 witness: the worker read setpoint 300 while the scheduler wants 750
\* and is sending the write
C28_Witness ==
    /\ pc["ramp"] = "r_put_b"
    /\ desired = 750
    /\ current_setpoint = 300

\* C29 (CacheSpec): a poll that raised returns the cached triple only if
\* the cache was less than 10 s old; with no cached reading, or one 10 s
\* old or older, it returns (None, None, None); and
\* check_safety_conditions is entered only with a triple.
C29_CachedOnlyWhenFresh ==
    \A w \in Workers :
        /\ (ck_pc[w] \in {"got", "check"} /\ ck_failed[w]) =>
              /\ ck_ret[w] # NoTriple =>
                    /\ ck_age[w] # NoTime
                    /\ ck_age[w] < CacheWindow
                    /\ \A i \in 1 .. 3 : ck_ret[w][i].poll = ck_latest[w]
              /\ (ck_age[w] = NoTime \/ ck_age[w] >= CacheWindow) =>
                    ck_ret[w] = NoTriple
        /\ ck_pc[w] = "check" => ck_ret[w] # NoTriple

\* C29 witness: a poll raised 10 s after the latest successful one and
\* returned no reading
C29_Witness ==
    \E w \in Workers :
        /\ ck_pc[w] = "got"
        /\ ck_failed[w]
        /\ ck_age[w] = 10
        /\ ck_ret[w] = NoTriple

\* C30 (CacheSpec): the triple handed to check_safety_conditions holds the
\* three values of one poll, the latest poll that had succeeded when the
\* worker's call returned; the cache always holds the three values of the
\* latest successful poll, so a poll with a failed read leaves it as it was.
C30_TripleOfOnePoll ==
    /\ \A w \in Workers :
          ck_pc[w] = "check" =>
              /\ ck_latest[w] > 0
              /\ \A i \in 1 .. 3 : ck_ret[w][i].poll = ck_latest[w]
    /\ ck_cache.internal_temp.poll = ck_last_ok
    /\ ck_cache.external_temp.poll = ck_last_ok
    /\ ck_cache.setpoint.poll = ck_last_ok

\* C30 witness: the monitor's poll raised after two of its reads, and the
\* triple of the ramp worker's earlier poll is what it hands on
C30_Witness ==
    /\ ck_pc["mon"] = "check"
    /\ ck_failed["mon"]
    /\ Len(ck_vals["mon"]) = 2
    /\ ck_poll["ramp"] = ck_latest["mon"]
    /\ ck_poll["mon"] > ck_latest["mon"]

\* C31 (Spec): the temperature log file is never released while a ramp
\* iteration is in flight: whenever the ramp worker has taken its readings
\* and is at the write of line 1414, the file is still open.
C31_LogOpenDuringIteration == pc["ramp"] = "r_write" => temp_log_file

\* C32 (ParseSpec): parse_raw_response yields an MFCStatus only if the
\* tokens of the line that do not contain "MOV" number exactly 7, and it
\* raises the invalid-format error whenever they number anything else;
\* tokens containing "MOV" are not counted.
C32_SevenColumnsBesidesMov ==
    pr_pc = "done" =>
       LET counted == Cardinality({i \in 1 .. Len(pr_tokens) :
                          pr_tokens[i] \notin {MovText, <<53>> \o MovText}})
       IN  /\ pr_result.tag = "MFCStatus" => counted = StatusColumns
           /\ counted # StatusColumns
                 => pr_result.tag = "Invalid response format"

\* a status parsed from a line of 7 columns and a MOV token
C32_Witness ==
    /\ pr_pc = "done"
    /\ pr_result.tag = "MFCStatus"
    /\ Len(pr_tokens) = StatusColumns + 1
    /\ \E i \in 1 .. Len(pr_tokens) : pr_tokens[i] = MovText

\* C33 (RampSpec): every control point (t, T) emitted inside a ramp from
\* (time0, temp0) to (time1, temp1) lies on the straight line between the
\* two: (t - time0) x |temp1 - temp0| = |T - temp0| x (time1 - time0).
C33_ControlPointsOnTheLine ==
    ramp_control_times # << >> =>
    LET pts == RampPoints(temp_ramp) IN
    \A j \in 1 .. Len(pts) - 1 :
       (pts[j].time # pts[j + 1].time /\ pts[j].temp # pts[j + 1].temp)
       => LET base == Len(ramp_control_temps)
                         - Len(ControlPointsFrom(pts, j).temps)
              n    == Len(Segment(pts[j], pts[j + 1]).temps)
          IN  \A k \in 1 .. n :
                 (ramp_control_times[base + k] - pts[j].time)
                    * Abs(pts[j + 1].temp - pts[j].temp)
                 = Abs(ramp_control_temps[base + k] - pts[j].temp)
                    * (pts[j + 1].time - pts[j].time)

\* C34 (Spec): after a safety trigger the last setpoint write issued before
\* a reset is the 20 degree write.  A scheduler write that the ramp worker
\* issues after the shutdown's 20 degree write, when no shutdown has its
\* own 20 degree write still ahead, is issued only while
\* temp_control_running is set, so that the worker's next iteration enters
\* the safety branch and puts 20 degrees back; otherwise the controller is
\* left at the scheduler's setpoint.
C34_SafeWriteIsLast ==
    [][(/\ pc["ramp"] = "r_put_b" /\ pc'["ramp"] = "r_log"
        /\ dev_setpoint' # SafeSetpoint
        /\ safety_triggered /\ safe_written
        /\ pc["gui"] = "idle"
        /\ pc["mon"] \notin {"ts_set", "ts_flow", "ts_flow_r", "ts_get1",
                             "ts_get1_b", "ts_put", "ts_put_b"})
          => temp_control_running]_vars

\* C35 (LivingSpec): the entries returned so far, in call order, are the
\* first complete lines of the file: the k-th entry is the text between
\* the (k-1)-th and the k-th newline, and the cursor rests just after the
\* newline of the last entry returned (at 0 when none has been).
C35_ReturnedLinesArePrefix ==
    LET newlines == {p \in 1 .. Len(ll_file) : ll_file[p] = Newline}
        NewlineAt(k) ==
            IF k = 0 THEN 0
            ELSE CHOOSE p \in newlines :
                    Cardinality({q \in newlines : q <= p}) = k
    IN  /\ Len(ll_returned) <= Cardinality(newlines)
        /\ \A k \in 1 .. Len(ll_returned) :
              ll_returned[k] =
                 SubSeq(ll_file, NewlineAt(k - 1) + 1, NewlineAt(k) - 1)
        /\ ll_cursor = NewlineAt(Len(ll_returned))

\* two lines have been returned and a third is being written
C35_Witness ==
    /\ ll_returned = <<<<97>>, <<98>>>>
    /\ ll_file = <<97, Newline, 98, Newline, 97>>
    /\ ll_cursor = 4
    /\ ll_pc = "idle"

\* C36 (WorkerSpec): at most one thread is in the loop of
\* run_temp_control_loop at any time.
C36_AtMostOneWorker == Cardinality(LiveWorkers) <= 1

\* C37 (SetFlowSpec): set_flow returns normally only with a status whose
\* echoed setpoint is less than 0.01 from the target, for every
\* max_retries; so when set_mfc_flow reports the flow as set, the call
\* was verified.
C37_NoUnverifiedReturn ==
    /\ sf_pc \in {"returned", "fellthrough"}
          => SetpointVerified(sf_result, sf_flow_rate)
    /\ sf_message = "set" => SetpointVerified(sf_result, sf_flow_rate)

\* C38 (ProparSpec): with capacity > 0 the integer setpoint that
\* set_flow_rate writes lies in 0 .. 32000: it is 0 for a negative request,
\* 32000 for a request at or above the capacity, and the truncation of
\* 32000 x flow / capacity otherwise; it is the value in the message sent.
C38_SetpointIsTruncatedShare ==
    (pp_op = "set_flow_rate" /\ pp_capacity > 0) =>
        /\ pp_value \in 0 .. FullScale
        /\ pp_message = BuildWriteMessage(3, 1, 1, "int", pp_value)
        /\ pp_value = IF pp_flow < 0 THEN 0
                      ELSE IF pp_flow >= pp_capacity THEN FullScale
                      ELSE (FullScale * pp_flow) \div pp_capacity


\* C39 (FlowSpec): a poll in which the measured-flow read of a channel
\* fails is not a low-flow observation of that channel: it does not start
\* a starvation alert (the alert's start time is not the time of that
\* poll), it does not count as a low-flow poll of a run, and it sends no
\* flow-starvation notification for the channel.
C39_FailedReadIsNotLowFlow ==
    \A n \in Nodes :
       read_failed[n] => /\ flow_alert_start_times[n] # now
                         /\ low_since[n] = NoTime
                         /\ ~notified_now[n]

====
